---- MODULE Spec2Model ----
(***************************************************************************)
(* A model of the trader engine of backend/pkg/trader/auto_trader.go: the  *)
(* Run loop that multiplexes the LLM cycle and the 10-second stop-loss     *)
(* watchdog, the forced-close registry with its retry cool-down, the       *)
(* per-position close-lock table, and the account-level risk governor.     *)
(*                                                                         *)
(* Time is in seconds.  Money is in cents.  Percentages computed by the    *)
(* code in float64 are compared here exactly, by cross-multiplication.     *)
(***************************************************************************)
EXTENDS Integers, Sequences, FiniteSets, TLC

(***************************************************************************)
(* Bounds of the model                                                     *)
(***************************************************************************)
MaxNow == 70
MaxCoolNow == 450
CoolStep == 150
MaxCycles == 2
RiskStep == 43200
MaxRiskNow == 129600
MaxRiskCycles == 4
MaxDecisions == 3
MaxExecs == 1

\* the last second of the trade-history specification
MaxTradeNow == 2

\* the runs of the reconciler
MaxSyncRuns == 2

\* the calls of the position-logic wrapper
MaxLogicCalls == 3

(***************************************************************************)
(* Program constants                                                       *)
(***************************************************************************)
WatchdogInterval == 10
PositionStopLossRetryTimeout == 300
DefaultPositionStopLossPct == 10
DailyResetPeriod == 86400

Keys == {"BTCUSDT_long", "ETHUSDT_short"}

SideOf(k) == IF k = "BTCUSDT_long" THEN "long" ELSE "short"

\* what the exchange reports for an open position of key k: bought at 100,
\* marked at one of three prices, at the leverage of its symbol
MarkPrices == {99, 100, 102}

LeverageOf(k) == IF k = "BTCUSDT_long" THEN 10 ELSE 5

PositionRecords(k) ==
    [entryPrice : {100}, markPrice : MarkPrices, leverage : {LeverageOf(k)}]

\* what an external call of a handler does for key k: it succeeds ("ok"),
\* market.Get fails ("market"), or the close order fails ("close")
Faults == [Keys -> {"ok", "market", "close"}]

FaultsWithin(todo) == {f \in Faults : \A k \in Keys \ todo : f[k] = "ok"}

\* the trader configurations of the watchdog specifications: the two
\* account-level rules are switched off (0); the stop-loss threshold is the
\* default with take-profit on, or explicit with take-profit off
WatchdogConfigs ==
    {c \in [ScanInterval : {60}, InitialBalance : {1000000},
            MaxDailyLoss : {0}, MaxDrawdown : {0}, StopTradingTime : {43200},
            PositionStopLossPct : {0, 20}, PositionTakeProfitPct : {0, 20}] :
        (c.PositionStopLossPct = 0) = (c.PositionTakeProfitPct = 20)}

\* the trader configuration of the Run-loop specification
RunConfigs ==
    [ScanInterval : {60}, InitialBalance : {1000000},
     MaxDailyLoss : {0}, MaxDrawdown : {0}, StopTradingTime : {43200},
     PositionStopLossPct : {0}, PositionTakeProfitPct : {20}]

\* the trader configurations of the risk-governor specification: the
\* per-position thresholds stay at their defaults, the account-level rules
\* are off (0) or at 5 percent, a halt pauses trading for 24 hours
RiskConfigs ==
    [ScanInterval : {60}, InitialBalance : {1000000},
     MaxDailyLoss : {0, 5}, MaxDrawdown : {0, 5}, StopTradingTime : {86400},
     PositionStopLossPct : {0}, PositionTakeProfitPct : {0}]

\* the trader configuration of the force-close passes: the watchdog
\* thresholds at 10 and 20 percent, the drawdown rule at 5 percent
PassConfigs ==
    [ScanInterval : {60}, InitialBalance : {1000000},
     MaxDailyLoss : {0}, MaxDrawdown : {5}, StopTradingTime : {86400},
     PositionStopLossPct : {0}, PositionTakeProfitPct : {20}]

\* what the exchange reports as total equity, in cents
EquityLevels == {949999, 950000, 1000000, 1050000}

VARIABLES
    now,                    \* the wall clock
    config,                 \* at.config
    isRunning,              \* at.isRunning
    callCount,              \* at.callCount
    stopUntil,              \* at.stopUntil (0 is the zero time: not set)
    lastResetTime,          \* at.lastResetTime
    dailyStartEquity,       \* at.dailyStartEquity
    dailyPnL,               \* at.dailyPnL
    peakEquity,             \* at.peakEquity
    forcedClosedPositions,  \* at.forcedClosedPositions: key -> mark time
    closingPositions,       \* at.closingPositions: key -> mutex
    decisionRecords,        \* the rows of the decision-records table
    positions,              \* the exchange: key -> open position
    totalEquity,            \* the exchange: wallet balance + unrealized profit
    runPc,                  \* where Run is
    cyclePc,                \* where runCycle is
    tickerPending,          \* ticker.C holds a tick
    stopLossPending,        \* stopLossTicker.C holds a tick
    lastWatchdogTime,       \* when checkPositionStopLossOnly last ran
    closeCalls,             \* goroutine -> its call of a close function
    mutexOwner,             \* mutex -> the goroutine that holds it, or "free"
    closeOrders,            \* the calls of CloseLong / CloseShort made so far
    llmDecisions,           \* decision.Decisions as the LLM returned them
    issued,                 \* the decisions in the order the loop executes them
    positionLogic,          \* the position-logic store: key -> stop and take price
    exchangeOrders,         \* the stop and take-profit orders the exchange holds
    execLog,                \* what the last call of the decision executor did
    execCount,              \* the calls of the decision executor so far
    record,                 \* the DecisionRecord the decision loop fills in
    trades,                 \* the rows of the trades table
    tradeLog,               \* what the last operation on the trades table did
    positionFirstSeenTime,  \* at.positionFirstSeenTime: key -> open time
    venueFills,             \* the fills the exchange reports for the account
    cache,                  \* PositionLogicWrapper.cache: key -> logic
    logicCalls,             \* goroutine -> its call of GetLogic / DeleteLogic
    logicLog,               \* what the last save of the position-logic store did
    riskMu,                 \* at.riskMu: the goroutines that hold it
    riskCalls,              \* goroutine -> where it is in its use of the risk fields
    forcedActions,          \* key -> outcome of forceClosePosition in the last pass
    handlerLog              \* what the handler that ran in the last step did

vars == <<now, config, isRunning, callCount, stopUntil, lastResetTime,
          dailyStartEquity, dailyPnL, peakEquity, forcedClosedPositions,
          closingPositions, decisionRecords, positions, totalEquity, runPc,
          cyclePc, tickerPending, stopLossPending, lastWatchdogTime,
          closeCalls, mutexOwner, closeOrders, llmDecisions, issued,
          positionLogic, exchangeOrders, execLog, execCount, record,
          trades, tradeLog, positionFirstSeenTime, venueFills,
          cache, logicCalls, logicLog, riskMu, riskCalls,
          forcedActions, handlerLog>>

riskVars == <<stopUntil, lastResetTime, dailyStartEquity, dailyPnL, peakEquity>>

closeVars == <<closeCalls, mutexOwner, closeOrders>>

\* the state of the decision executor
orderVars == <<positionLogic, exchangeOrders, execLog, execCount, record>>

execVars == <<llmDecisions, issued, orderVars>>

\* the trade history and what it is built from
tradeVars == <<trades, tradeLog, positionFirstSeenTime, venueFills>>

\* what a call of the position-logic wrapper leaves alone
runVarsOfLogic == <<now, config, isRunning, callCount, riskVars,
                    forcedClosedPositions, closingPositions, decisionRecords,
                    positions, totalEquity, runPc, cyclePc, tickerPending,
                    stopLossPending, lastWatchdogTime, closeVars, forcedActions,
                    handlerLog, llmDecisions, issued, exchangeOrders, execLog,
                    execCount, record, tradeVars>>

\* the cache of the position-logic wrapper and the calls made of it
logicVars == <<cache, logicCalls, logicLog>>

\* the mutex of the risk fields and the goroutines that use it
lockVars == <<riskMu, riskCalls>>

\* what a statement on the risk fields leaves alone
runVarsOfRisk == <<config, isRunning, callCount, forcedClosedPositions,
                   closingPositions, decisionRecords, positions, totalEquity,
                   runPc, cyclePc, tickerPending, stopLossPending,
                   lastWatchdogTime, closeVars, forcedActions, handlerLog,
                   execVars, tradeVars, logicVars>>

\* what a call of a close function leaves alone
runVars == <<now, config, isRunning, callCount, riskVars, decisionRecords,
             totalEquity, runPc, cyclePc, tickerPending, stopLossPending,
             lastWatchdogTime, forcedActions, handlerLog, execVars, tradeVars, logicVars, lockVars>>

(***************************************************************************)
(* Go maps                                                                 *)
(***************************************************************************)
EmptyMap == [x \in {} |-> 0]

MapPut(m, k, v) == [x \in DOMAIN m \cup {k} |-> IF x = k THEN v ELSE m[x]]

MapDelete(m, k) == [x \in DOMAIN m \ {k} |-> m[x]]

MapDeleteAll(m, ks) == [x \in DOMAIN m \ ks |-> m[x]]

NoActions == [k \in Keys |-> "none"]

\* handlerLog when the step just taken ran no handler.  path: the return the
\* handler took; cleared: the keys whose expired mark the registry check of
\* forceClosePosition deleted; cleaned: the keys the registry cleanup of
\* runCycle deleted
NoCycle ==
    [CycleNumber |-> 0, path |-> "none", equity |-> 0, halt |-> "none",
     persisted |-> FALSE, aiActions |-> NoActions, cleared |-> {},
     cleaned |-> {}]

(***************************************************************************)
(* checkPositionStopLossOnly: the leveraged pnl percentage of a position   *)
(* is PnlNum / entryPrice; the thresholds are compared without dividing.   *)
(***************************************************************************)
PnlNum(pos, side) ==
    IF side = "long"
    THEN (pos.markPrice - pos.entryPrice) * pos.leverage * 100
    ELSE (pos.entryPrice - pos.markPrice) * pos.leverage * 100

EffectiveStopLossPct(cfg) ==
    IF cfg.PositionStopLossPct = 0
    THEN DefaultPositionStopLossPct
    ELSE cfg.PositionStopLossPct

\* a loss exactly at the threshold is not closed
StopLossTriggered_strict(pos, side, cfg) ==
    /\ PnlNum(pos, side) < 0
    /\ -PnlNum(pos, side) > EffectiveStopLossPct(cfg) * pos.entryPrice

StopLossTriggered(pos, side, cfg) ==
    /\ PnlNum(pos, side) < 0
    /\ -PnlNum(pos, side) >= EffectiveStopLossPct(cfg) * pos.entryPrice

TakeProfitTriggered(pos, side, cfg) ==
    /\ cfg.PositionTakeProfitPct > 0
    /\ PnlNum(pos, side) > 0
    /\ PnlNum(pos, side) >= cfg.PositionTakeProfitPct * pos.entryPrice

WatchdogTriggered(pos, side, cfg) ==
    StopLossTriggered(pos, side, cfg) \/ TakeProfitTriggered(pos, side, cfg)

(***************************************************************************)
(* forceClosePosition, run to completion by the one goroutine of Run.      *)
(* fault: which external call fails, if any.                               *)
(***************************************************************************)
\* the age of the mark is computed with the operands exchanged
MarkExpired_reversed(markTime, t) ==
    markTime - t > PositionStopLossRetryTimeout

MarkExpired(markTime, t) == t - markTime > PositionStopLossRetryTimeout

ForceCloseOutcome(reg, k, t, fault) ==
    IF k \in DOMAIN reg /\ ~MarkExpired(reg[k], t) THEN "skipped"
    ELSE IF fault = "market" THEN "market_error"
    ELSE IF fault = "close" THEN "close_error"
    ELSE "closed"

\* the registry after the call: an expired mark is deleted at the check; a
\* failed or successful close order stamps the key; a market-data failure
\* returns before anything is written
RegistryAfterForceClose(reg, k, t, out) ==
    IF out = "skipped" THEN reg
    ELSE IF out = "market_error" THEN MapDelete(reg, k)
    ELSE MapPut(reg, k, t)

\* the lock table after the call: the deferred cleanupClosingLock deletes the
\* entry on every return that follows getOrCreateClosingLock
LockTableAfterForceClose(tab, k, out) ==
    IF out = "skipped" THEN tab ELSE MapDelete(tab, k)

SubmitsCloseOrder(out) == out \in {"close_error", "closed"}

\* the pass ends at the first call that fails
PassOutcomes_stopAtFailure(reg, todo, t, f) ==
    [k \in Keys |-> IF k \in todo /\ \A j \in todo : j = k \/ f[j] = "ok"
                    THEN ForceCloseOutcome(reg, k, t, f[k])
                    ELSE "none"]

\* one pass of force-closes over the keys of todo; the calls touch disjoint keys
PassOutcomes(reg, todo, t, f) ==
    [k \in Keys |-> IF k \in todo
                    THEN ForceCloseOutcome(reg, k, t, f[k])
                    ELSE "none"]

RECURSIVE RegistryAfterPass(_, _, _, _)
RegistryAfterPass(reg, todo, t, outs) ==
    IF todo = {} THEN reg
    ELSE LET k == CHOOSE x \in todo : TRUE
         IN RegistryAfterPass(RegistryAfterForceClose(reg, k, t, outs[k]),
                              todo \ {k}, t, outs)

RECURSIVE LockTableAfterPass(_, _, _)
LockTableAfterPass(tab, todo, outs) ==
    IF todo = {} THEN tab
    ELSE LET k == CHOOSE x \in todo : TRUE
         IN LockTableAfterPass(LockTableAfterForceClose(tab, k, outs[k]),
                               todo \ {k}, outs)

ClosedBy(outs) == {k \in Keys : outs[k] = "closed"}

ClearedBy(reg, todo, t) ==
    {k \in todo : k \in DOMAIN reg /\ MarkExpired(reg[k], t)}

(***************************************************************************)
(* getOrCreateClosingLock / cleanupClosingLock.  A mutex is a number; a    *)
(* new mutex is one no table entry refers to.                              *)
(***************************************************************************)
MutexIds == 1..(Cardinality(Keys) + 2)

NewMutex(tab, inUse) ==
    CHOOSE m \in MutexIds :
        /\ m \notin inUse
        /\ \A k \in DOMAIN tab : tab[k] # m
        /\ \A x \in MutexIds :
              (x \notin inUse /\ \A k \in DOMAIN tab : tab[k] # x) => m <= x

getOrCreateClosingLock(tab, k, inUse) ==
    IF k \in DOMAIN tab THEN tab ELSE MapPut(tab, k, NewMutex(tab, inUse))

cleanupClosingLock(tab, k) == MapDelete(tab, k)

(***************************************************************************)
(* forceClosePosition and executeCloseLongWithRecord /                     *)
(* executeCloseShortWithRecord statement by statement, for goroutines that *)
(* call them at the same time.  pc is the statement the call is at:        *)
(* "check1" the registry check before the lock, "getlock"                  *)
(* getOrCreateClosingLock, "lock" closingLock.Lock(), "check2" the         *)
(* registry check under the lock, "market" market.Get, "close" CloseLong / *)
(* CloseShort, "cleanup" cleanupClosingLock, "unlock" the deferred         *)
(* closingLock.Unlock().                                                   *)
(***************************************************************************)
Callers == {"watchdog", "governor", "ai"}

KindOf(c) == IF c = "ai" THEN "ai" ELSE "force"

NoCall == [pc |-> "idle", key |-> "", lock |-> 0, result |-> "none"]

\* the mutexes the calls in progress hold a pointer to
MutexesInUse ==
    {closeCalls[c].lock : c \in Callers} \ {0}

BeginClose(c, k) ==
    /\ closeCalls[c].pc = "idle"
    /\ k \in DOMAIN positions
    /\ closeCalls' = [closeCalls EXCEPT ![c] = [NoCall EXCEPT !.pc = "check1",
                                                               !.key = k]]
    /\ UNCHANGED <<forcedClosedPositions, closingPositions, positions,
                   mutexOwner, closeOrders>>
    /\ UNCHANGED runVars

\* force close: an unexpired mark returns, an expired mark is deleted.
\* AI close: any mark returns.  The return under the lock runs the deferred
\* calls.
RegistryCheck(c) ==
    LET call == closeCalls[c]
        k == call.key
        first == call.pc = "check1"
        marked == k \in DOMAIN forcedClosedPositions
        expired == marked /\ MarkExpired(forcedClosedPositions[k], now)
        skip == IF KindOf(c) = "force" THEN marked /\ ~expired ELSE marked
    IN /\ call.pc \in {"check1", "check2"}
       /\ forcedClosedPositions' =
              IF KindOf(c) = "force" /\ expired
              THEN MapDelete(forcedClosedPositions, k)
              ELSE forcedClosedPositions
       /\ closeCalls' =
              [closeCalls EXCEPT ![c] =
                 IF skip
                 THEN [call EXCEPT
                         !.result = IF KindOf(c) = "force" THEN "skipped"
                                    ELSE "already_forced",
                         !.pc = IF first THEN "done"
                                ELSE IF KindOf(c) = "force" THEN "cleanup"
                                ELSE "unlock"]
                 ELSE [call EXCEPT !.pc = IF first THEN "getlock" ELSE "market"]]
       /\ UNCHANGED <<closingPositions, positions, mutexOwner, closeOrders>>
       /\ UNCHANGED runVars

GetLock(c) ==
    LET call == closeCalls[c]
        tab == getOrCreateClosingLock(closingPositions, call.key, MutexesInUse)
    IN /\ call.pc = "getlock"
       /\ closingPositions' = tab
       /\ closeCalls' = [closeCalls EXCEPT ![c] =
                            [call EXCEPT !.lock = tab[call.key], !.pc = "lock"]]
       /\ UNCHANGED <<forcedClosedPositions, positions, mutexOwner, closeOrders>>
       /\ UNCHANGED runVars

Lock(c) ==
    LET call == closeCalls[c]
    IN /\ call.pc = "lock"
       /\ mutexOwner[call.lock] = "free"
       /\ mutexOwner' = [mutexOwner EXCEPT ![call.lock] = c]
       /\ closeCalls' = [closeCalls EXCEPT ![c] = [call EXCEPT !.pc = "check2"]]
       /\ UNCHANGED <<forcedClosedPositions, closingPositions, positions,
                      closeOrders>>
       /\ UNCHANGED runVars

MarketGet(c) ==
    LET call == closeCalls[c]
    IN /\ call.pc = "market"
       /\ \E ok \in BOOLEAN :
             closeCalls' =
                [closeCalls EXCEPT ![c] =
                   IF ok THEN [call EXCEPT !.pc = "close"]
                   ELSE [call EXCEPT
                           !.result = "market_error",
                           !.pc = IF KindOf(c) = "force" THEN "cleanup"
                                  ELSE "unlock"]]
       /\ UNCHANGED <<forcedClosedPositions, closingPositions, positions,
                      mutexOwner, closeOrders>>
       /\ UNCHANGED runVars

\* the order goes to the exchange; it can only succeed on an open position.
\* Force close stamps the registry on success and on failure; AI close
\* writes no mark, and cleans the lock entry up only on success
CloseOrder(c) ==
    LET call == closeCalls[c]
        k == call.key
    IN /\ call.pc = "close"
       /\ closeOrders' = closeOrders \cup {<<c, k>>}
       /\ \E ok \in BOOLEAN :
             /\ ok => k \in DOMAIN positions
             /\ positions' = IF ok THEN MapDelete(positions, k) ELSE positions
             /\ closeCalls' =
                    [closeCalls EXCEPT ![c] =
                       [call EXCEPT
                          !.result = IF ok THEN "closed" ELSE "close_error",
                          !.pc = IF KindOf(c) = "force" \/ ok THEN "cleanup"
                                 ELSE "unlock"]]
       /\ forcedClosedPositions' =
              IF KindOf(c) = "force" THEN MapPut(forcedClosedPositions, k, now)
              ELSE forcedClosedPositions
       /\ UNCHANGED <<closingPositions, mutexOwner>>
       /\ UNCHANGED runVars

Cleanup(c) ==
    LET call == closeCalls[c]
    IN /\ call.pc = "cleanup"
       /\ closingPositions' = cleanupClosingLock(closingPositions, call.key)
       /\ closeCalls' = [closeCalls EXCEPT ![c] = [call EXCEPT !.pc = "unlock"]]
       /\ UNCHANGED <<forcedClosedPositions, positions, mutexOwner, closeOrders>>
       /\ UNCHANGED runVars

Unlock(c) ==
    LET call == closeCalls[c]
    IN /\ call.pc = "unlock"
       /\ mutexOwner' = [mutexOwner EXCEPT ![call.lock] = "free"]
       /\ closeCalls' = [closeCalls EXCEPT ![c] =
                            [call EXCEPT !.pc = "done", !.lock = 0]]
       /\ UNCHANGED <<forcedClosedPositions, closingPositions, positions,
                      closeOrders>>
       /\ UNCHANGED runVars

CloseStep ==
    \E c \in Callers :
       \/ \E k \in Keys : BeginClose(c, k)
       \/ RegistryCheck(c)
       \/ GetLock(c)
       \/ Lock(c)
       \/ MarketGet(c)
       \/ CloseOrder(c)
       \/ Cleanup(c)
       \/ Unlock(c)

(***************************************************************************)
(* Run: the loop continues while isRunning = 1, tested after each handler  *)
(***************************************************************************)
LoopCheck == IF isRunning = 1 THEN "select" ELSE "exit"

AfterHandler == IF runPc = "select" THEN LoopCheck ELSE runPc

(***************************************************************************)
(* checkPositionStopLossOnly: one watchdog tick, the whole handler.        *)
(* posOK: trader.GetPositions succeeds.                                    *)
(***************************************************************************)
WatchdogTodo(posOK) ==
    IF isRunning = 1 /\ posOK
    THEN {k \in DOMAIN positions :
             WatchdogTriggered(positions[k], SideOf(k), config)}
    ELSE {}

WatchdogRecord == [CycleNumber |-> 0, Success |-> TRUE, ErrorMessage |-> ""]

checkPositionStopLossOnly(posOK, f) ==
    LET todo == WatchdogTodo(posOK)
        outs == PassOutcomes(forcedClosedPositions, todo, now, f)
    IN /\ f \in FaultsWithin(todo)
       /\ forcedActions' = outs
       /\ forcedClosedPositions' =
              RegistryAfterPass(forcedClosedPositions, todo, now, outs)
       /\ closingPositions' = LockTableAfterPass(closingPositions, todo, outs)
       /\ positions' = MapDeleteAll(positions, ClosedBy(outs))
       /\ decisionRecords' = IF todo = {} THEN decisionRecords
                             ELSE decisionRecords \cup {WatchdogRecord}
       /\ lastWatchdogTime' = now
       /\ handlerLog' =
              [NoCycle EXCEPT
                 !.path = IF isRunning # 1 THEN "watchdog_stopped"
                          ELSE IF ~posOK THEN "watchdog_error"
                          ELSE "watchdog",
                 !.cleared = ClearedBy(forcedClosedPositions, todo, now)]

WatchdogTick ==
    /\ UNCHANGED <<closeVars, execVars, tradeVars, logicVars, lockVars>>
    /\ cyclePc = "idle"
    /\ \/ runPc = "first_watchdog"
       \/ runPc = "select" /\ stopLossPending
    /\ \E posOK \in BOOLEAN, f \in Faults : checkPositionStopLossOnly(posOK, f)
    /\ stopLossPending' = IF runPc = "select" THEN FALSE ELSE stopLossPending
    /\ runPc' = LoopCheck
    /\ UNCHANGED <<now, config, isRunning, callCount, riskVars, totalEquity,
                   cyclePc, tickerPending>>

(***************************************************************************)
(* runCycle, first half: pause check, daily reset, registry cleanup and    *)
(* the account-level risk check (checkAndExecuteForcedStopLoss), up to the *)
(* call of the LLM.  ctxOK: buildTradingContext succeeds.                  *)
(***************************************************************************)
Paused(until, t) == until # 0 /\ t < until

NeedResetDailyPnL(t, last) == t - last > DailyResetPeriod

PeakAfter(peak, eq) == IF eq > peak THEN eq ELSE peak

DailyPnLAfter(pnl, eq, start, t, last) ==
    IF t - last < DailyResetPeriod THEN eq - start ELSE pnl

\* a drawdown exactly at the limit already halts
DrawdownBreached_atLimit(cfg, peak, eq) ==
    /\ cfg.MaxDrawdown > 0
    /\ peak > 0
    /\ (peak - eq) * 100 >= cfg.MaxDrawdown * peak

\* ((peak - eq) / peak) * 100 > MaxDrawdown
DrawdownBreached(cfg, peak, eq) ==
    /\ cfg.MaxDrawdown > 0
    /\ peak > 0
    /\ (peak - eq) * 100 > cfg.MaxDrawdown * peak

\* a loss exactly at the limit already halts
DailyLossBreached_atLimit(cfg, pnl, start) ==
    /\ cfg.MaxDailyLoss > 0
    /\ start > 0
    /\ pnl * 100 <= -(cfg.MaxDailyLoss * start)

\* the loss is compared in whole percent
DailyLossBreached_wholePercent(cfg, pnl, start) ==
    /\ cfg.MaxDailyLoss > 0
    /\ start > 0
    /\ -((-pnl * 100) \div start) < -cfg.MaxDailyLoss

\* (pnl / start) * 100 < -MaxDailyLoss
DailyLossBreached(cfg, pnl, start) ==
    /\ cfg.MaxDailyLoss > 0
    /\ start > 0
    /\ pnl * 100 < -(cfg.MaxDailyLoss * start)

RiskHalt(cfg, peak, eq, pnl, start) ==
    IF DrawdownBreached(cfg, peak, eq) THEN "drawdown"
    ELSE IF DailyLossBreached(cfg, pnl, start) THEN "daily_loss"
    ELSE "none"

CleanupRegistry_either(reg, posKeys, t) ==
    MapDeleteAll(reg, {k \in DOMAIN reg :
                          k \notin posKeys \/ MarkExpired(reg[k], t)})

CleanupRegistry(reg, posKeys, t) ==
    MapDeleteAll(reg, {k \in DOMAIN reg :
                          k \notin posKeys /\ MarkExpired(reg[k], t)})

CycleRecord(n, ok, msg) ==
    [CycleNumber |-> n, Success |-> ok, ErrorMessage |-> msg]

runCycleHead(ctxOK, f) ==
    LET n == callCount + 1
        eq == totalEquity
        needReset == NeedResetDailyPnL(now, lastResetTime)
        start1 == IF needReset THEN eq ELSE dailyStartEquity
        pnl1 == IF needReset THEN 0 ELSE dailyPnL
        peak1 == IF needReset THEN PeakAfter(peakEquity, eq) ELSE peakEquity
        last1 == IF needReset THEN now ELSE lastResetTime
        reg1 == CleanupRegistry(forcedClosedPositions, DOMAIN positions, now)
        peak2 == PeakAfter(peak1, eq)
        pnl2 == DailyPnLAfter(pnl1, eq, start1, now, last1)
        halt == RiskHalt(config, peak2, eq, pnl2, start1)
        todo == IF halt = "none" THEN {} ELSE DOMAIN positions
        outs == PassOutcomes(reg1, todo, now, f)
    IN /\ f \in FaultsWithin(IF Paused(stopUntil, now) \/ ~ctxOK THEN {} ELSE todo)
       /\ callCount' = n
       /\ IF Paused(stopUntil, now)
          THEN \* the record is filled in and the function returns nil
               /\ handlerLog' = [NoCycle EXCEPT !.CycleNumber = n, !.path = "paused"]
               /\ cyclePc' = "idle"
               /\ forcedActions' = NoActions
               /\ UNCHANGED <<riskVars, forcedClosedPositions, closingPositions,
                              positions>>
          ELSE IF ~ctxOK
          THEN \* fallback reset to the initial balance, then return the error
               /\ handlerLog' = [NoCycle EXCEPT !.CycleNumber = n,
                                              !.path = "context_error"]
               /\ cyclePc' = "idle"
               /\ forcedActions' = NoActions
               /\ dailyStartEquity' = IF needReset THEN config.InitialBalance
                                      ELSE dailyStartEquity
               /\ dailyPnL' = IF needReset THEN 0 ELSE dailyPnL
               /\ peakEquity' = IF needReset THEN config.InitialBalance
                                ELSE peakEquity
               /\ lastResetTime' = last1
               /\ UNCHANGED <<stopUntil, forcedClosedPositions,
                              closingPositions, positions>>
          ELSE /\ handlerLog' = [NoCycle EXCEPT !.CycleNumber = n, !.path = "llm",
                                                !.equity = eq, !.halt = halt,
                                                !.cleared = ClearedBy(reg1, todo, now),
                                                !.cleaned = DOMAIN forcedClosedPositions
                                                               \ DOMAIN reg1]
               /\ cyclePc' = "llm"
               /\ forcedActions' = outs
               /\ dailyStartEquity' = start1
               /\ dailyPnL' = pnl2
               /\ peakEquity' = peak2
               /\ lastResetTime' = last1
               /\ stopUntil' = IF halt = "none" THEN stopUntil
                               ELSE now + config.StopTradingTime
               /\ forcedClosedPositions' = RegistryAfterPass(reg1, todo, now, outs)
               /\ closingPositions' = LockTableAfterPass(closingPositions, todo, outs)
               /\ positions' = MapDeleteAll(positions, ClosedBy(outs))

CycleStart ==
    /\ UNCHANGED <<closeVars, execVars, tradeVars, logicVars, lockVars>>
    /\ cyclePc = "idle"
    /\ \/ runPc = "start"
       \/ runPc = "select" /\ tickerPending
    /\ \E ctxOK \in BOOLEAN, f \in Faults : runCycleHead(ctxOK, f)
    /\ tickerPending' = IF runPc = "select" THEN FALSE ELSE tickerPending
    /\ runPc' = IF runPc = "start" THEN "first_watchdog"
                ELSE IF cyclePc' = "idle" THEN LoopCheck ELSE runPc
    /\ UNCHANGED <<now, config, isRunning, decisionRecords, totalEquity,
                   stopLossPending, lastWatchdogTime>>

(***************************************************************************)
(* runCycle, second half: the LLM has answered; the close decisions are    *)
(* executed (executeCloseLongWithRecord / executeCloseShortWithRecord) and *)
(* the DecisionRecord is saved.  llmOK: GetFullDecision succeeds.          *)
(***************************************************************************)
DecisionSkipped(reg, k, t) == k \in DOMAIN reg /\ ~MarkExpired(reg[k], t)

RegistryAfterDecisionCheck(reg, k, t) ==
    IF k \in DOMAIN reg /\ MarkExpired(reg[k], t) THEN MapDelete(reg, k) ELSE reg

executeCloseOutcome(reg, k, fault) ==
    IF k \in DOMAIN reg THEN "already_forced"
    ELSE IF fault = "market" THEN "market_error"
    ELSE IF fault = "close" THEN "close_error"
    ELSE "closed"

AICloseOutcome(reg, k, t, fault) ==
    IF DecisionSkipped(reg, k, t) THEN "skipped"
    ELSE executeCloseOutcome(RegistryAfterDecisionCheck(reg, k, t), k, fault)

\* the lock entry is cleaned up only after a successful close
LockTableAfterAIClose(tab, k, out) ==
    IF out \in {"skipped", "already_forced", "none"} THEN tab
    ELSE IF out = "closed" THEN cleanupClosingLock(getOrCreateClosingLock(tab, k, {}), k)
    ELSE getOrCreateClosingLock(tab, k, {})

RECURSIVE RegistryAfterDecisions(_, _, _)
RegistryAfterDecisions(reg, todo, t) ==
    IF todo = {} THEN reg
    ELSE LET k == CHOOSE x \in todo : TRUE
         IN RegistryAfterDecisions(RegistryAfterDecisionCheck(reg, k, t),
                                   todo \ {k}, t)

RECURSIVE LockTableAfterDecisions(_, _, _)
LockTableAfterDecisions(tab, todo, outs) ==
    IF todo = {} THEN tab
    ELSE LET k == CHOOSE x \in todo : TRUE
         IN LockTableAfterDecisions(LockTableAfterAIClose(tab, k, outs[k]),
                                    todo \ {k}, outs)

runCycleTail(llmOK, closes, f) ==
    LET todo == IF llmOK THEN closes ELSE {}
        outs == [k \in Keys |->
                    IF k \in todo
                    THEN AICloseOutcome(forcedClosedPositions, k, now, f[k])
                    ELSE "none"]
    IN /\ f \in FaultsWithin(todo)
       /\ forcedClosedPositions' =
              RegistryAfterDecisions(forcedClosedPositions, todo, now)
       /\ closingPositions' = LockTableAfterDecisions(closingPositions, todo, outs)
       /\ positions' = MapDeleteAll(positions, ClosedBy(outs))
       /\ decisionRecords' =
              IF llmOK
              THEN decisionRecords \cup {CycleRecord(callCount, TRUE, "")}
              ELSE decisionRecords
       /\ handlerLog' = [NoCycle EXCEPT !.CycleNumber = callCount,
                                      !.path = IF llmOK THEN "done" ELSE "llm_error",
                                      !.persisted = llmOK,
                                      !.aiActions = outs]

CycleFinish ==
    /\ UNCHANGED <<closeVars, execVars, tradeVars, logicVars, lockVars>>
    /\ cyclePc = "llm"
    /\ \E llmOK \in BOOLEAN, closes \in SUBSET Keys, f \in Faults :
          runCycleTail(llmOK, closes, f)
    /\ cyclePc' = "idle"
    /\ forcedActions' = NoActions
    /\ runPc' = AfterHandler
    /\ UNCHANGED <<now, config, isRunning, callCount, riskVars, totalEquity,
                   tickerPending, stopLossPending, lastWatchdogTime>>

(***************************************************************************)
(* sortDecisionsByPriority and deduplicateDecisions: what runCycle does to *)
(* the decision list between the LLM's answer and the execution loop.  A   *)
(* decision carries its Action, its Symbol, and n, its place in the LLM's  *)
(* list.                                                                   *)
(***************************************************************************)
Symbols == {"BTCUSDT", "ETHUSDT"}

PlanActions == {"close_long", "open_long", "update_sl", "update_tp", "hold", "wait"}

getActionPriority_openFirst(action) ==
    IF action \in {"open_long", "open_short"} THEN 1
    ELSE IF action \in {"close_long", "close_short"} THEN 2
    ELSE IF action \in {"hold", "wait"} THEN 3
    ELSE 999

getActionPriority(action) ==
    IF action \in {"close_long", "close_short"} THEN 1
    ELSE IF action \in {"open_long", "open_short"} THEN 2
    ELSE IF action \in {"hold", "wait"} THEN 3
    ELSE 999

SwapAt(sorted, i, j) ==
    [sorted EXCEPT ![i] = sorted[j], ![j] = sorted[i]]

\* the inner loop: for j from i+1, exchange places i and j when out of order
RECURSIVE SortInner(_, _, _)
SortInner(sorted, i, j) ==
    IF j > Len(sorted) THEN sorted
    ELSE SortInner(IF getActionPriority(sorted[i].Action)
                        > getActionPriority(sorted[j].Action)
                   THEN SwapAt(sorted, i, j) ELSE sorted,
                   i, j + 1)

RECURSIVE SortOuter(_, _)
SortOuter(sorted, i) ==
    IF i >= Len(sorted) THEN sorted
    ELSE SortOuter(SortInner(sorted, i, i + 1), i + 1)

sortDecisionsByPriority(decisions) ==
    IF Len(decisions) <= 1 THEN decisions ELSE SortOuter(decisions, 1)

dedupActions == {"update_sl", "update_tp"}

\* lastIndexMap[Symbol_Action]: the last place the key occurs at
LastIndex(decisions, d) ==
    CHOOSE i \in 1..Len(decisions) :
       /\ decisions[i].Symbol = d.Symbol
       /\ decisions[i].Action = d.Action
       /\ \A j \in (i + 1)..Len(decisions) :
             ~(decisions[j].Symbol = d.Symbol /\ decisions[j].Action = d.Action)

RECURSIVE DedupFrom(_, _)
DedupFrom(decisions, i) ==
    IF i > Len(decisions) THEN <<>>
    ELSE IF decisions[i].Action \in dedupActions
            /\ LastIndex(decisions, decisions[i]) # i
         THEN DedupFrom(decisions, i + 1)
         ELSE <<decisions[i]>> \o DedupFrom(decisions, i + 1)

deduplicateDecisions(decisions) ==
    IF Len(decisions) <= 1 THEN decisions ELSE DedupFrom(decisions, 1)

\* the lists the LLM can return, each decision numbered by its place
DecisionLists ==
    UNION {{[i \in 1..len |-> [Action |-> l[i][1], Symbol |-> l[i][2], n |-> i]] :
               l \in [1..len -> PlanActions \X Symbols]} :
           len \in 0..MaxDecisions}

\* steps 7 and 7.5 of runCycle on one answer of the LLM
PlanDecisions ==
    /\ llmDecisions = <<>>
    /\ \E ds \in DecisionLists :
          /\ llmDecisions' = ds
          /\ issued' = deduplicateDecisions(sortDecisionsByPriority(ds))
    /\ UNCHANGED <<now, config, isRunning, callCount, riskVars,
                   forcedClosedPositions, closingPositions, decisionRecords,
                   positions, totalEquity, runPc, cyclePc, tickerPending,
                   stopLossPending, lastWatchdogTime, closeVars, forcedActions,
                   handlerLog, orderVars, tradeVars, logicVars, lockVars>>

(***************************************************************************)
(* Opening a position: executeOpenLongWithRecord and                       *)
(* executeOpenShortWithRecord, which differ in the side only.  Money is in *)
(* cents; the sizes are multiples of the leverages, so the divisions are   *)
(* exact.                                                                  *)
(***************************************************************************)
MaxMarginUsagePct == 90
MaxMarginUsagePctSingleSymbol == 80
MinReserveBalancePct == 5
MinSafeDistancePct == 3

SymbolOf(k) == IF k = "BTCUSDT_long" THEN "BTCUSDT" ELSE "ETHUSDT"

\* market.Get(symbol).CurrentPrice while a decision is executed
CurrentPrice == 10000

\* what GetBalance reports: equity and available balance agree, or the
\* wallet fields are missing from the answer (equity read as 0), or the
\* unrealized loss exceeds the wallet balance
AccountReads ==
    {[TotalEquity |-> 1000000, AvailableBalance |-> 1000000],
     [TotalEquity |-> 0, AvailableBalance |-> 1000000],
     [TotalEquity |-> -100000, AvailableBalance |-> 0]}

OpenSizes == {10000, 8500000, 9500000}

\* stop and take price of an open decision: none, a stop, or both
OpenPrices(k) ==
    IF SideOf(k) = "long"
    THEN {<<0, 0>>, <<9500, 0>>, <<9500, 11000>>}
    ELSE {<<0, 0>>, <<10500, 0>>, <<10500, 9000>>}

OpenDecisions ==
    UNION {[key : {k}, PositionSizeUSD : OpenSizes, Leverage : {LeverageOf(k)},
            prices : OpenPrices(k), price : {CurrentPrice}] : k \in Keys}

\* the calls of an open that fail
OpenFaults ==
    {{}, {"GetPositions1"}, {"GetPositions2"}, {"GetPositions1", "GetPositions2"},
     {"buildTradingContext"}, {"market.Get"}, {"Open"},
     {"SaveStopLossAndTakeProfit"}, {"SetStopLoss"}, {"SetTakeProfit"},
     {"SaveStopLossAndTakeProfit", "SetStopLoss"}, {"SetStopLoss", "SetTakeProfit"}}

\* a row of the table with the defaults of its columns
NoLogic == [EntryLogic |-> "", ExitLogic |-> "", StopLoss |-> 0, TakeProfit |-> 0,
            FirstSeenTime |-> 0]

\* positionLogicManager.GetLogic
GetLogic(store, k) == IF k \in DOMAIN store THEN store[k] ELSE NoLogic

\* both prices are written as given
SaveStopLossAndTakeProfit_asGiven(store, k, stopLoss, takeProfit) ==
    MapPut(store, k, [GetLogic(store, k) EXCEPT !.StopLoss = stopLoss,
                                                !.TakeProfit = takeProfit])

\* PositionLogicStorage.SaveStopLossAndTakeProfit: a price of 0 keeps the
\* stored one
SaveStopLossAndTakeProfit(store, k, stopLoss, takeProfit) ==
    MapPut(store, k,
           [GetLogic(store, k) EXCEPT
               !.StopLoss = IF stopLoss > 0 THEN stopLoss
                            ELSE GetLogic(store, k).StopLoss,
               !.TakeProfit = IF takeProfit > 0 THEN takeProfit
                              ELSE GetLogic(store, k).TakeProfit])

\* the exchange: an order is added to those it holds for the symbol, and
\* CancelAllOrders removes them all
SetStopLoss(orders, k, price) == orders \cup {[key |-> k, kind |-> "stop", price |-> price]}

SetTakeProfit(orders, k, price) == orders \cup {[key |-> k, kind |-> "take", price |-> price]}

CancelAllOrders(orders, k) == {o \in orders : o.key # k}

\* totalMarginUsed of buildTradingContext: quantity * markPrice / leverage
RECURSIVE MarginUsedOf(_, _)
MarginUsedOf(pos, ks) ==
    IF ks = {} THEN 0
    ELSE LET k == CHOOSE x \in ks : TRUE
         IN (pos[k].notional \div pos[k].leverage) + MarginUsedOf(pos, ks \ {k})

MarginUsed(pos) == MarginUsedOf(pos, DOMAIN pos)

isSingleSymbol(pos, symbol) ==
    \/ DOMAIN pos = {}
    \/ {SymbolOf(k) : k \in DOMAIN pos} = {symbol}

MaxMarginPctFor(pos, symbol) ==
    IF isSingleSymbol(pos, symbol) THEN MaxMarginUsagePctSingleSymbol
    ELSE MaxMarginUsagePct

MarginRequired(d) == d.PositionSizeUSD \div d.Leverage

\* totalMarginUsedPct > maxMarginUsagePct; the percentage stays 0.0 unless
\* TotalEquity > 0
MarginOverLimit(acct, pos, d) ==
    /\ acct.TotalEquity > 0
    /\ (MarginUsed(pos) + MarginRequired(d)) * 100
          > MaxMarginPctFor(pos, SymbolOf(d.key)) * acct.TotalEquity

\* availableBalanceAfterMargin < minReserveBalance
ReserveTooSmall(acct, d) ==
    (acct.AvailableBalance - MarginRequired(d)) * 100
       < acct.TotalEquity * MinReserveBalancePct

\* the stop of the decision against the entry price and the estimated
\* liquidation price, entry * (1 -/+ (1/leverage + 0.01))
StopLossUnsafe(d) ==
    LET sl == d.prices[1]
        lev == d.Leverage
    IN /\ sl > 0
       /\ IF SideOf(d.key) = "long"
          THEN \/ sl >= d.price
               \/ sl * 100 * lev <= d.price * (100 * lev - 100 - lev)
          ELSE \/ sl <= d.price
               \/ sl * 100 * lev >= d.price * (100 * lev + 100 + lev)

\* priceDistancePct < MinSafeDistancePct: the distance of the estimated
\* liquidation price from the entry price is (1/leverage + 0.01) * 100
LiquidationTooClose(d) == 100 + d.Leverage < MinSafeDistancePct * d.Leverage

checkMarginAndBalanceSafety(acct, pos, d) ==
    IF MarginOverLimit(acct, pos, d) THEN "margin_over_limit"
    ELSE IF ReserveTooSmall(acct, d) THEN "reserve_too_small"
    ELSE IF LiquidationTooClose(d) THEN "liquidation_too_close"
    ELSE IF StopLossUnsafe(d) THEN "stop_loss_unsafe"
    ELSE "ok"

\* the position after the exchange filled the open order
OpenedPosition(pos, d) ==
    [entryPrice |-> d.price, markPrice |-> d.price,
     leverage |-> d.Leverage,
     notional |-> d.PositionSizeUSD
                    + (IF d.key \in DOMAIN pos THEN pos[d.key].notional ELSE 0)]

\* the block after a filled order, the exchange orders placed before the
\* prices are saved
SaveAndPlace_placeFirst(store, orders, d, F) ==
    LET sl == d.prices[1]
        tp == d.prices[2]
        o1 == IF sl > 0 /\ "SetStopLoss" \notin F
              THEN SetStopLoss(orders, d.key, sl) ELSE orders
        o2 == IF tp > 0 /\ "SetTakeProfit" \notin F
              THEN SetTakeProfit(o1, d.key, tp) ELSE o1
        placed == /\ sl > 0 => "SetStopLoss" \notin F
                  /\ tp > 0 => "SetTakeProfit" \notin F
    IN IF sl > 0 \/ tp > 0
       THEN [store |-> IF "SaveStopLossAndTakeProfit" \in F \/ ~placed THEN store
                       ELSE SaveStopLossAndTakeProfit(store, d.key, sl, tp),
             orders |-> o2,
             calls |-> (IF sl > 0 THEN <<"SetStopLoss">> ELSE <<>>)
                       \o (IF tp > 0 THEN <<"SetTakeProfit">> ELSE <<>>)
                       \o <<"SaveStopLossAndTakeProfit">>]
       ELSE [store |-> store, orders |-> orders, calls |-> <<>>]

\* the block after a filled order: the prices are saved, then the stop and
\* the take-profit orders are placed; a failure is logged and nothing more
SaveAndPlace(store, orders, d, F) ==
    LET sl == d.prices[1]
        tp == d.prices[2]
        o1 == IF sl > 0 /\ "SetStopLoss" \notin F
              THEN SetStopLoss(orders, d.key, sl) ELSE orders
        o2 == IF tp > 0 /\ "SetTakeProfit" \notin F
              THEN SetTakeProfit(o1, d.key, tp) ELSE o1
    IN IF sl > 0 \/ tp > 0
       THEN [store |-> IF "SaveStopLossAndTakeProfit" \in F THEN store
                       ELSE SaveStopLossAndTakeProfit(store, d.key, sl, tp),
             orders |-> o2,
             calls |-> <<"SaveStopLossAndTakeProfit">>
                       \o (IF sl > 0 THEN <<"SetStopLoss">> ELSE <<>>)
                       \o (IF tp > 0 THEN <<"SetTakeProfit">> ELSE <<>>)]
       ELSE [store |-> store, orders |-> orders, calls |-> <<>>]

NoExec ==
    [action |-> "none", key |-> "", result |-> "", submitted |-> FALSE,
     held |-> FALSE, calls |-> <<>>]

\* what an open leaves behind
OpenLog(d, acct, pos, F, result, submitted, calls) ==
    [action |-> "open", key |-> d.key, result |-> result,
     submitted |-> submitted, held |-> d.key \in DOMAIN pos, calls |-> calls,
     prices |-> d.prices, faults |-> F,
     marginRequired |-> MarginRequired(d), equity |-> acct.TotalEquity,
     maxMarginPct |-> MaxMarginPctFor(pos, SymbolOf(d.key))]

\* the result of the call, the exchange and the store as the call leaves them
executeOpenWithRecord(pos, store, orders, acct, d, F) ==
    LET held == d.key \in DOMAIN pos
        safety == checkMarginAndBalanceSafety(acct, pos, d)
        rejected(result) ==
            [positions |-> pos, store |-> store, orders |-> orders,
             log |-> OpenLog(d, acct, pos, F, result, FALSE, <<>>)]
        after == SaveAndPlace(store, orders, d, F)
    IN IF "GetPositions1" \notin F /\ held THEN rejected("already_held")
       ELSE IF "buildTradingContext" \in F THEN rejected("context_error")
       ELSE IF safety # "ok" THEN rejected(safety)
       ELSE IF "GetPositions2" \notin F /\ held THEN rejected("held_at_recheck")
       ELSE IF "market.Get" \in F THEN rejected("market_error")
       ELSE IF "Open" \in F
            THEN [positions |-> pos, store |-> store, orders |-> orders,
                  log |-> OpenLog(d, acct, pos, F, "open_error", TRUE, <<"Open">>)]
       ELSE [positions |-> MapPut(pos, d.key, OpenedPosition(pos, d)),
             store |-> after.store, orders |-> after.orders,
             log |-> OpenLog(d, acct, pos, F, "ok", TRUE,
                             <<"Open">> \o after.calls)]

\* one open decision of the loop, the decision of D, the account read of A
\* and the failing calls of FS
ExecuteOpenOf(D, A, FS) ==
    /\ execCount < MaxExecs
    /\ \E d \in D, acct \in A, F \in FS :
          LET r == executeOpenWithRecord(positions, positionLogic,
                                         exchangeOrders, acct, d, F)
          IN /\ positions' = r.positions
             /\ positionLogic' = r.store
             /\ exchangeOrders' = r.orders
             /\ execLog' = r.log
             /\ positionFirstSeenTime' =
                    IF r.log.result = "ok"
                    THEN MapPut(positionFirstSeenTime, d.key, now * 1000)
                    ELSE positionFirstSeenTime
    /\ execCount' = execCount + 1
    /\ UNCHANGED <<now, config, isRunning, callCount, riskVars,
                   forcedClosedPositions, closingPositions, decisionRecords,
                   totalEquity, runPc, cyclePc, tickerPending, stopLossPending,
                   lastWatchdogTime, closeVars, forcedActions, handlerLog,
                   llmDecisions, issued, record, trades, tradeLog,
                   venueFills, logicVars, lockVars>>

ExecuteOpen == ExecuteOpenOf(OpenDecisions, AccountReads, OpenFaults)

\* validateDecisionWithMarketData for an open decision; cap is the leverage
\* the configuration allows for the symbol
validateDecisionWithMarketData(d, accountEquity, cap) ==
    LET sl == d.prices[1]
        tp == d.prices[2]
        long == SideOf(d.key) = "long"
    IN IF d.Leverage <= 0 \/ d.Leverage > cap THEN "invalid_leverage"
       ELSE IF d.PositionSizeUSD <= 0 THEN "invalid_size"
       ELSE IF MarginRequired(d) * 200 > accountEquity * 101 THEN "invalid_margin"
       ELSE IF d.PositionSizeUSD * 1000 > accountEquity * cap * 909
            THEN "invalid_value"
       ELSE IF sl <= 0 \/ tp <= 0 THEN "invalid_prices"
       ELSE IF (IF long THEN sl >= tp ELSE sl <= tp) THEN "invalid_prices"
       ELSE IF (IF long THEN ~(d.price > sl /\ d.price < tp)
                        ELSE ~(d.price > tp /\ d.price < sl))
            THEN "invalid_entry"
       ELSE "ok"

\* open_long decisions for BTCUSDT at a price of 60000, in USDT
SafetyDecisions ==
    [key : {"BTCUSDT_long"}, PositionSizeUSD : {2000, 40000, 100000},
     Leverage : {5, 10, 20, 100},
     prices : {<<59900, 62000>>, <<59400, 62000>>, <<53400, 62000>>,
               <<50000, 62000>>, <<59900, 0>>},
     price : {60000}]

\* the leverage the configuration allows for BTC and ETH
LeverageCaps == {5, 10, 20, 125}

\* an open decision that went through the validation of the LLM's answer
\* and is executed on an account of 10000 USDT with no position
ExecuteValidatedOpen ==
    /\ execCount < MaxExecs
    /\ positions = EmptyMap
    /\ \E d \in SafetyDecisions, cap \in LeverageCaps, F \in OpenFaults :
          LET acct == [TotalEquity |-> 10000, AvailableBalance |-> 10000]
              r == executeOpenWithRecord(positions, positionLogic,
                                         exchangeOrders, acct, d, F)
              v == validateDecisionWithMarketData(d, acct.TotalEquity, cap)
          IN /\ v = "ok"
             /\ positions' = r.positions
             /\ positionLogic' = r.store
             /\ exchangeOrders' = r.orders
             /\ execLog' = r.log
             /\ positionFirstSeenTime' =
                    IF r.log.result = "ok"
                    THEN MapPut(positionFirstSeenTime, d.key, now * 1000)
                    ELSE positionFirstSeenTime
    /\ execCount' = execCount + 1
    /\ UNCHANGED <<now, config, isRunning, callCount, riskVars,
                   forcedClosedPositions, closingPositions, decisionRecords,
                   totalEquity, runPc, cyclePc, tickerPending, stopLossPending,
                   lastWatchdogTime, closeVars, forcedActions, handlerLog,
                   llmDecisions, issued, record, trades, tradeLog,
                   venueFills, logicVars, lockVars>>

(***************************************************************************)
(* Moving the stop or the take-profit of a held position:                  *)
(* executeUpdateStopLoss and executeUpdateTakeProfit                       *)
(***************************************************************************)
\* what the store holds for a position when an update arrives
StoredLogic(k) ==
    IF SideOf(k) = "long"
    THEN {[NoLogic EXCEPT !.StopLoss = 8000, !.TakeProfit = 12000],
          [NoLogic EXCEPT !.StopLoss = 8000],
          [NoLogic EXCEPT !.TakeProfit = 12000]}
    ELSE {[NoLogic EXCEPT !.StopLoss = 12000, !.TakeProfit = 8000]}

\* the stop prices an update_sl asks for, around the stored stop
UpdateStops(k) ==
    IF SideOf(k) = "long" THEN {0, 7900, 8039, 8040, 8041, 8500}
    ELSE {12100, 11941, 11940, 11500}

\* the take prices an update_tp asks for, around the stored take
UpdateTakes(k) ==
    IF SideOf(k) = "long" THEN {0, 11941, 12060, 12500}
    ELSE {8039, 7500}

\* the price of the other side a decision may carry as well
OtherTake(k) == IF SideOf(k) = "long" THEN {0, 12500} ELSE {0}

OtherStop(k) == IF SideOf(k) = "long" THEN {0, 7500} ELSE {0}

UpdateStopLossDecisions ==
    UNION {[key : {k}, StopLoss : UpdateStops(k), TakeProfit : OtherTake(k)] :
             k \in Keys}

UpdateTakeProfitDecisions ==
    UNION {[key : {k}, StopLoss : OtherStop(k), TakeProfit : UpdateTakes(k)] :
             k \in Keys}

\* the calls of an update that fail
UpdateFaults ==
    {{}, {"findPositionBySymbol"}, {"market.Get"}, {"CancelAllOrders"},
     {"SetNew"}, {"SetCounter"}, {"SetNew", "RollbackStop"},
     {"SetCounter", "RollbackTake"}, {"SaveStopLossAndTakeProfit"}}

\* priceDiff < 0.005, priceDiff the change relative to the stored price
PriceDiffSmall_atLimit(new, stored) ==
    LET diff == IF new >= stored THEN new - stored ELSE stored - new
    IN diff * 1000 <= 5 * stored

PriceDiffSmall(new, stored) ==
    LET diff == IF new >= stored THEN new - stored ELSE stored - new
    IN diff * 1000 < 5 * stored

\* a stop may only move towards the price: up for a long, down for a short
StopMovesBack_never(side, new, old) == FALSE

StopMovesBack(side, new, old) ==
    /\ old > 0
    /\ IF side = "long" THEN new < old ELSE new > old

\* stop and take of a decision that carries both, against each other and
\* against the current price
PairInvalid(side, stopLoss, takeProfit) ==
    IF side = "long"
    THEN stopLoss >= takeProfit \/ stopLoss >= CurrentPrice
            \/ takeProfit <= CurrentPrice
    ELSE stopLoss <= takeProfit \/ takeProfit >= CurrentPrice
            \/ stopLoss <= CurrentPrice

\* rollbackOrders: the orders after it, and whether every placement worked
rollbackOrders(orders, k, oldStopLoss, oldTakeProfit, F) ==
    LET stopFails == oldStopLoss > 0 /\ "RollbackStop" \in F
        takeFails == oldTakeProfit > 0 /\ "RollbackTake" \in F
        o1 == IF oldStopLoss > 0 /\ ~stopFails
              THEN SetStopLoss(orders, k, oldStopLoss) ELSE orders
        o2 == IF oldTakeProfit > 0 /\ ~takeFails
              THEN SetTakeProfit(o1, k, oldTakeProfit) ELSE o1
    IN [orders |-> o2, ok |-> ~stopFails /\ ~takeFails]

OrdersOf(orders, k) == {o \in orders : o.key = k}

\* what an update leaves behind
UpdateLog(action, d, store, orders, F, result) ==
    [action |-> action, key |-> d.key, result |-> result, submitted |-> FALSE,
     held |-> TRUE, calls |-> <<>>, StopLoss |-> d.StopLoss,
     TakeProfit |-> d.TakeProfit, faults |-> F,
     logicBefore |-> GetLogic(store, d.key),
     ordersBefore |-> OrdersOf(orders, d.key)]

executeUpdateStopLoss(pos, store, orders, d, F) ==
    LET k == d.key
        side == SideOf(k)
        oldLogic == GetLogic(store, k)
        preserveTakeProfit == IF d.TakeProfit <= 0 /\ oldLogic.TakeProfit > 0
                              THEN oldLogic.TakeProfit ELSE d.TakeProfit
        oldStopLossOrder == IF oldLogic.StopLoss > 0 THEN oldLogic.StopLoss ELSE 0
        oldTakeProfitOrder == preserveTakeProfit
        cancelled == CancelAllOrders(orders, k)
        rolledNew == rollbackOrders(cancelled, k, oldStopLossOrder,
                                    oldTakeProfitOrder, F)
        withStop == SetStopLoss(cancelled, k, d.StopLoss)
        rolledCounter == rollbackOrders(withStop, k, oldStopLossOrder,
                                        oldTakeProfitOrder, F)
        withBoth == IF preserveTakeProfit > 0
                    THEN SetTakeProfit(withStop, k, preserveTakeProfit)
                    ELSE withStop
        saveTakeProfit == IF d.TakeProfit <= 0 /\ preserveTakeProfit > 0
                          THEN preserveTakeProfit ELSE d.TakeProfit
        out(st, os, result) ==
            [store |-> st, orders |-> os,
             log |-> UpdateLog("update_sl", d, store, orders, F, result)]
    IN IF d.StopLoss <= 0 THEN out(store, orders, "invalid_price")
       ELSE IF "findPositionBySymbol" \in F \/ k \notin DOMAIN pos
            THEN out(store, orders, "no_position")
       ELSE IF oldLogic.StopLoss > 0 /\ PriceDiffSmall(d.StopLoss, oldLogic.StopLoss)
            THEN out(store, orders, "SKIPPED")
       ELSE IF "market.Get" \in F THEN out(store, orders, "market_error")
       ELSE IF (IF side = "long" THEN d.StopLoss >= CurrentPrice
                                 ELSE d.StopLoss <= CurrentPrice)
            THEN out(store, orders, "wrong_side_of_price")
       ELSE IF StopMovesBack(side, d.StopLoss, oldLogic.StopLoss)
            THEN out(store, orders, "moves_back")
       ELSE IF d.TakeProfit > 0 /\ PairInvalid(side, d.StopLoss, d.TakeProfit)
            THEN out(store, orders, "pair_invalid")
       ELSE IF "CancelAllOrders" \in F THEN out(store, orders, "cancel_error")
       ELSE IF "SetNew" \in F
            THEN out(store, rolledNew.orders,
                     IF rolledNew.ok THEN "rolled_back" ELSE "rollback_failed")
       ELSE IF preserveTakeProfit > 0 /\ "SetCounter" \in F
            THEN out(store, rolledCounter.orders,
                     IF rolledCounter.ok THEN "rolled_back" ELSE "rollback_failed")
       ELSE out(IF "SaveStopLossAndTakeProfit" \in F THEN store
                ELSE SaveStopLossAndTakeProfit(store, k, d.StopLoss, saveTakeProfit),
                withBoth, "ok")

executeUpdateTakeProfit(pos, store, orders, d, F) ==
    LET k == d.key
        side == SideOf(k)
        oldLogic == GetLogic(store, k)
        preserveStopLoss == IF d.StopLoss <= 0 /\ oldLogic.StopLoss > 0
                            THEN oldLogic.StopLoss ELSE d.StopLoss
        oldStopLossOrder == preserveStopLoss
        oldTakeProfitOrder == IF oldLogic.TakeProfit > 0 THEN oldLogic.TakeProfit ELSE 0
        cancelled == CancelAllOrders(orders, k)
        rolledNew == rollbackOrders(cancelled, k, oldStopLossOrder,
                                    oldTakeProfitOrder, F)
        withTake == SetTakeProfit(cancelled, k, d.TakeProfit)
        rolledCounter == rollbackOrders(withTake, k, oldStopLossOrder,
                                        oldTakeProfitOrder, F)
        withBoth == IF preserveStopLoss > 0
                    THEN SetStopLoss(withTake, k, preserveStopLoss)
                    ELSE withTake
        saveStopLoss == IF d.StopLoss <= 0 /\ preserveStopLoss > 0
                        THEN preserveStopLoss ELSE d.StopLoss
        out(st, os, result) ==
            [store |-> st, orders |-> os,
             log |-> UpdateLog("update_tp", d, store, orders, F, result)]
    IN IF d.TakeProfit <= 0 THEN out(store, orders, "invalid_price")
       ELSE IF "findPositionBySymbol" \in F \/ k \notin DOMAIN pos
            THEN out(store, orders, "no_position")
       ELSE IF oldLogic.TakeProfit > 0
               /\ PriceDiffSmall(d.TakeProfit, oldLogic.TakeProfit)
            THEN out(store, orders, "SKIPPED")
       ELSE IF "market.Get" \in F THEN out(store, orders, "market_error")
       ELSE IF (IF side = "long" THEN d.TakeProfit <= CurrentPrice
                                 ELSE d.TakeProfit >= CurrentPrice)
            THEN out(store, orders, "wrong_side_of_price")
       ELSE IF d.StopLoss > 0 /\ PairInvalid(side, d.StopLoss, d.TakeProfit)
            THEN out(store, orders, "pair_invalid")
       ELSE IF "CancelAllOrders" \in F THEN out(store, orders, "cancel_error")
       ELSE IF "SetNew" \in F
            THEN out(store, rolledNew.orders,
                     IF rolledNew.ok THEN "rolled_back" ELSE "rollback_failed")
       ELSE IF preserveStopLoss > 0 /\ "SetCounter" \in F
            THEN out(store, rolledCounter.orders,
                     IF rolledCounter.ok THEN "rolled_back" ELSE "rollback_failed")
       ELSE out(IF "SaveStopLossAndTakeProfit" \in F THEN store
                ELSE SaveStopLossAndTakeProfit(store, k, saveStopLoss, d.TakeProfit),
                withBoth, "ok")

\* one update_sl decision of the loop
ExecuteUpdateStopLoss ==
    /\ execCount < MaxExecs
    /\ \E d \in UpdateStopLossDecisions, F \in UpdateFaults :
          LET r == executeUpdateStopLoss(positions, positionLogic,
                                         exchangeOrders, d, F)
          IN /\ positionLogic' = r.store
             /\ exchangeOrders' = r.orders
             /\ execLog' = r.log
    /\ execCount' = execCount + 1
    /\ UNCHANGED <<now, config, isRunning, callCount, riskVars,
                   forcedClosedPositions, closingPositions, decisionRecords,
                   positions, totalEquity, runPc, cyclePc, tickerPending,
                   stopLossPending, lastWatchdogTime, closeVars, forcedActions,
                   handlerLog, llmDecisions, issued, record, tradeVars, logicVars, lockVars>>

\* one update_tp decision of the loop
ExecuteUpdateTakeProfit ==
    /\ execCount < MaxExecs
    /\ \E d \in UpdateTakeProfitDecisions, F \in UpdateFaults :
          LET r == executeUpdateTakeProfit(positions, positionLogic,
                                           exchangeOrders, d, F)
          IN /\ positionLogic' = r.store
             /\ exchangeOrders' = r.orders
             /\ execLog' = r.log
    /\ execCount' = execCount + 1
    /\ UNCHANGED <<now, config, isRunning, callCount, riskVars,
                   forcedClosedPositions, closingPositions, decisionRecords,
                   positions, totalEquity, runPc, cyclePc, tickerPending,
                   stopLossPending, lastWatchdogTime, closeVars, forcedActions,
                   handlerLog, llmDecisions, issued, record, tradeVars, logicVars, lockVars>>

(***************************************************************************)
(* Steps 4 to 8 of runCycle: GetFullDecision, which validates the whole    *)
(* answer of the LLM, then the loop over the sorted list, then the save of *)
(* the record.                                                             *)
(***************************************************************************)
LoopActions == {"close_long", "open_long", "hold"}

\* the answers of the LLM the loop is run on
LoopLists ==
    UNION {{[i \in 1..len |-> [Action |-> l[i][1], Symbol |-> l[i][2], n |-> i]] :
               l \in [1..len -> LoopActions \X Symbols]} :
           len \in 1..MaxDecisions}

NoRecord ==
    [Decisions |-> <<>>, persisted |-> FALSE, invalid |-> {}, failing |-> {}]

\* validateDecisionsWithMarketData: the first decision that fails its
\* validation fails the whole answer
validateDecisionsWithMarketData(decisions, invalid) ==
    \A i \in 1..Len(decisions) : i \notin invalid

\* record.Decisions after the loop: one action record for each decision of
\* the list, an error of executeDecisionWithRecord noted in it
LoopRecords(list, failing) ==
    [i \in 1..Len(list) |->
        [Action |-> list[i].Action, Symbol |-> list[i].Symbol, n |-> list[i].n,
         Success |-> list[i].n \notin failing]]

\* invalid: the decisions validation rejects; failing: the decisions whose
\* execution returns an error
DecisionLoop ==
    /\ llmDecisions = <<>>
    /\ \E ds \in LoopLists :
       \E invalid \in SUBSET (1..Len(ds)), failing \in SUBSET (1..Len(ds)) :
          LET ok == validateDecisionsWithMarketData(ds, invalid)
              list == IF ok THEN deduplicateDecisions(sortDecisionsByPriority(ds))
                      ELSE <<>>
          IN /\ llmDecisions' = ds
             /\ issued' = list
             /\ record' = [Decisions |-> LoopRecords(list, failing),
                           persisted |-> ok, invalid |-> invalid,
                           failing |-> failing]
             /\ decisionRecords' =
                    IF ok THEN decisionRecords \cup {CycleRecord(callCount, TRUE, "")}
                    ELSE decisionRecords
    /\ UNCHANGED <<now, config, isRunning, callCount, riskVars,
                   forcedClosedPositions, closingPositions, positions,
                   totalEquity, runPc, cyclePc, tickerPending, stopLossPending,
                   lastWatchdogTime, closeVars, forcedActions, handlerLog,
                   positionLogic, exchangeOrders, execLog, execCount,
                   tradeVars, logicVars, lockVars>>

\* the loop has run through the list; the next cycle asks the LLM again and
\* starts a new record
DecisionsDone ==
    /\ llmDecisions # <<>>
    /\ llmDecisions' = <<>>
    /\ issued' = <<>>
    /\ record' = NoRecord
    /\ UNCHANGED <<now, config, isRunning, callCount, riskVars,
                   forcedClosedPositions, closingPositions, decisionRecords,
                   positions, totalEquity, runPc, cyclePc, tickerPending,
                   stopLossPending, lastWatchdogTime, closeVars, forcedActions,
                   handlerLog, positionLogic, exchangeOrders, execLog,
                   execCount, tradeVars, logicVars, lockVars>>

(***************************************************************************)
(* The risk fields statement by statement: runCycle with                   *)
(* checkAndExecuteForcedStopLoss in the goroutine of Run, GetStatus in a   *)
(* goroutine of the API server.  riskMu is a sync.RWMutex: Lock waits      *)
(* until nobody holds it, RLock until no writer holds it.                  *)
(***************************************************************************)
SetRiskPc(g, pc) == riskCalls' = [riskCalls EXCEPT ![g] = pc]

\* runCycle up to the first use of the risk fields: the pause check, the
\* test of the daily reset and buildTradingContext
RiskBegin ==
    /\ riskCalls["cycle"] = "idle"
    /\ \E ctxOK \in BOOLEAN :
          SetRiskPc("cycle",
             IF Paused(stopUntil, now) THEN "idle"
             ELSE IF NeedResetDailyPnL(now, lastResetTime)
                  THEN (IF ctxOK THEN "reset_lock" ELSE "fallback_lock")
                  ELSE (IF ctxOK THEN "check_lock" ELSE "idle"))
    /\ UNCHANGED <<now, riskVars, riskMu, runVarsOfRisk>>

\* at.riskMu.Lock()
RiskLock ==
    /\ riskCalls["cycle"] \in {"reset_lock", "fallback_lock", "check_lock"}
    /\ riskMu = {}
    /\ riskMu' = {"cycle"}
    /\ SetRiskPc("cycle",
                 IF riskCalls["cycle"] = "reset_lock" THEN "reset_locked"
                 ELSE IF riskCalls["cycle"] = "fallback_lock" THEN "fallback_locked"
                 ELSE "check_locked")
    /\ UNCHANGED <<now, riskVars, runVarsOfRisk>>

\* the daily reset after a failed buildTradingContext, and Unlock
FallbackWrite ==
    /\ riskCalls["cycle"] = "fallback_locked"
    /\ dailyStartEquity' = config.InitialBalance
    /\ dailyPnL' = 0
    /\ peakEquity' = config.InitialBalance
    /\ riskMu' = riskMu \ {"cycle"}
    /\ SetRiskPc("cycle", "fallback_unlocked")
    /\ UNCHANGED <<now, stopUntil, lastResetTime, runVarsOfRisk>>

\* the daily reset, and Unlock
ResetWrite ==
    /\ riskCalls["cycle"] = "reset_locked"
    /\ dailyStartEquity' = totalEquity
    /\ dailyPnL' = 0
    /\ peakEquity' = PeakAfter(peakEquity, totalEquity)
    /\ riskMu' = riskMu \ {"cycle"}
    /\ SetRiskPc("cycle", "reset_unlocked")
    /\ UNCHANGED <<now, stopUntil, lastResetTime, runVarsOfRisk>>

\* at.lastResetTime = time.Now(): the store of the time.Time begins
StoreLastResetTimeBegin ==
    /\ riskCalls["cycle"] \in {"fallback_unlocked", "reset_unlocked"}
    /\ SetRiskPc("cycle", IF riskCalls["cycle"] = "reset_unlocked"
                          THEN "reset_storing" ELSE "fallback_storing")
    /\ UNCHANGED <<now, riskVars, riskMu, runVarsOfRisk>>

\* the store is complete; after the fallback reset runCycle returns
StoreLastResetTimeEnd ==
    /\ riskCalls["cycle"] \in {"fallback_storing", "reset_storing"}
    /\ lastResetTime' = now
    /\ SetRiskPc("cycle", IF riskCalls["cycle"] = "reset_storing"
                          THEN "check_lock" ELSE "idle")
    /\ UNCHANGED <<now, stopUntil, dailyStartEquity, dailyPnL, peakEquity,
                   riskMu, runVarsOfRisk>>

\* checkAndExecuteForcedStopLoss: peak and daily pnl, and Unlock
CheckWrite ==
    /\ riskCalls["cycle"] = "check_locked"
    /\ peakEquity' = PeakAfter(peakEquity, totalEquity)
    /\ dailyPnL' = DailyPnLAfter(dailyPnL, totalEquity, dailyStartEquity, now,
                                 lastResetTime)
    /\ riskMu' = riskMu \ {"cycle"}
    /\ SetRiskPc("cycle",
                 IF RiskHalt(config, peakEquity', totalEquity, dailyPnL',
                             dailyStartEquity) = "none"
                 THEN "idle" ELSE "halt")
    /\ UNCHANGED <<now, stopUntil, lastResetTime, dailyStartEquity,
                   runVarsOfRisk>>

\* at.stopUntil = time.Now().Add(StopTradingTime): the store begins
StoreStopUntilBegin ==
    /\ riskCalls["cycle"] = "halt"
    /\ SetRiskPc("cycle", "halt_storing")
    /\ UNCHANGED <<now, riskVars, riskMu, runVarsOfRisk>>

StoreStopUntilEnd ==
    /\ riskCalls["cycle"] = "halt_storing"
    /\ stopUntil' = now + config.StopTradingTime
    /\ SetRiskPc("cycle", "idle")
    /\ UNCHANGED <<now, lastResetTime, dailyStartEquity, dailyPnL, peakEquity,
                   riskMu, runVarsOfRisk>>

\* GetStatus: RLock, and the reads of stopUntil and lastResetTime begin
GetStatusRLock ==
    /\ riskCalls["status"] = "idle"
    /\ "cycle" \notin riskMu
    /\ riskMu' = riskMu \cup {"status"}
    /\ SetRiskPc("status", "reading")
    /\ UNCHANGED <<now, riskVars, runVarsOfRisk>>

\* the map is built, the deferred RUnlock runs
GetStatusReturn ==
    /\ riskCalls["status"] = "reading"
    /\ riskMu' = riskMu \ {"status"}
    /\ SetRiskPc("status", "idle")
    /\ UNCHANGED <<now, riskVars, runVarsOfRisk>>

\* half a day passes
RiskClock ==
    /\ now + RiskStep <= MaxRiskNow
    /\ now' = now + RiskStep
    /\ UNCHANGED <<riskVars, lockVars, runVarsOfRisk>>

(***************************************************************************)
(* Stop, the clock with the two tickers, and the market                    *)
(***************************************************************************)
\* forcedActions and handlerLog describe the handler step just taken
Quiet == forcedActions' = NoActions /\ handlerLog' = NoCycle

Stop ==
    /\ UNCHANGED <<closeVars, execVars, tradeVars, logicVars, lockVars>>
    /\ isRunning = 1
    /\ runPc # "start"
    /\ isRunning' = 0
    /\ Quiet
    /\ UNCHANGED <<now, config, callCount, riskVars, forcedClosedPositions,
                   closingPositions, decisionRecords, positions, totalEquity,
                   runPc, cyclePc, tickerPending, stopLossPending,
                   lastWatchdogTime>>

\* Run is blocked: inside the LLM call, or in select with no tick to serve
RunBlocked ==
    \/ cyclePc = "llm"
    \/ runPc = "select" /\ ~tickerPending /\ ~stopLossPending

\* the clock advances by step; stopLossTicker fires, and ticker fires when a
\* multiple of ScanInterval is passed, for at most maxCalls cycles in all
ClockTick(step, horizon, maxCalls) ==
    /\ UNCHANGED <<closeVars, execVars, tradeVars, logicVars, lockVars>>
    /\ RunBlocked
    /\ now + step <= horizon
    /\ now' = now + step
    /\ stopLossPending' = TRUE
    /\ tickerPending' =
           IF /\ (now + step) \div config.ScanInterval > now \div config.ScanInterval
              /\ callCount < maxCalls
           THEN TRUE ELSE tickerPending
    /\ Quiet
    /\ UNCHANGED <<config, isRunning, callCount, riskVars, forcedClosedPositions,
                   closingPositions, decisionRecords, positions, totalEquity,
                   runPc, cyclePc, lastWatchdogTime>>

\* the exchange moves a mark price while Run is alive
MarketMove ==
    /\ UNCHANGED <<closeVars, execVars, tradeVars, logicVars, lockVars>>
    /\ runPc # "exit"
    /\ \E k \in DOMAIN positions, m \in MarkPrices :
          /\ m # positions[k].markPrice
          /\ positions' = [positions EXCEPT ![k].markPrice = m]
    /\ Quiet
    /\ UNCHANGED <<now, config, isRunning, callCount, riskVars,
                   forcedClosedPositions, closingPositions, decisionRecords,
                   totalEquity, runPc, cyclePc, tickerPending, stopLossPending,
                   lastWatchdogTime>>

\* the account's total equity changes; only runCycle reads it, so the change
\* is taken where a cycle is about to start
EquityMove ==
    /\ UNCHANGED <<closeVars, execVars, tradeVars, logicVars, lockVars>>
    /\ cyclePc = "idle"
    /\ runPc = "start" \/ (runPc = "select" /\ tickerPending)
    /\ \E e \in EquityLevels :
          /\ e # totalEquity
          /\ totalEquity' = e
    /\ Quiet
    /\ UNCHANGED <<now, config, isRunning, callCount, riskVars,
                   forcedClosedPositions, closingPositions, decisionRecords,
                   positions, runPc, cyclePc, tickerPending, stopLossPending,
                   lastWatchdogTime>>

(***************************************************************************)
(* The trades table (storage/trade.go).  A row carries its key columns and *)
(* the columns a close writes; close_time NULL is NullTime, a NULL or      *)
(* empty text column is "".  trade_id is the primary key and               *)
(* (symbol, open_time) is UNIQUE.                                          *)
(***************************************************************************)
NullTime == -1

TradeRow(id, sym, side, openT, closeT, forced, sl, cl, fcl) ==
    [TradeID |-> id, Symbol |-> sym, Side |-> side, OpenTime |-> openT,
     CloseTime |-> closeT,
     ClosePrice |-> IF closeT = NullTime THEN 0 ELSE 100 + closeT,
     CloseOrderID |-> IF closeT = NullTime THEN 0 ELSE 500 + closeT,
     PnL |-> IF closeT = NullTime THEN 0 ELSE closeT,
     IsForced |-> forced, UpdateSLLogic |-> sl, CloseLogic |-> cl,
     ForcedCloseLogic |-> fcl, Error |-> ""]

\* the INSERT violates the primary key or the UNIQUE constraint
InsertFails(tbl, t) ==
    \E r \in tbl : \/ r.TradeID = t.TradeID
                   \/ r.Symbol = t.Symbol /\ r.OpenTime = t.OpenTime

\* what an operation of the table returns: the table after it, the error
\* ("" is nil), whether a statement was executed and how many rows it matched
StoreResult(tbl, err, executed, matched) ==
    [trades |-> tbl, err |-> err, executed |-> executed, matched |-> matched]

\* the table has no constraint
LogTrade_noConstraint(tbl, t) == StoreResult(tbl \cup {t}, "", TRUE, 0)

\* LogTrade: INSERT of the whole row
LogTrade(tbl, t) ==
    IF InsertFails(tbl, t) THEN StoreResult(tbl, "insert_error", TRUE, 0)
    ELSE StoreResult(tbl \cup {t}, "", TRUE, 0)

\* CreateTrade: INSERT of the open columns; the others take their defaults
CreateTrade(tbl, t) ==
    LET row == [t EXCEPT !.CloseTime = NullTime, !.ClosePrice = 0, !.CloseOrderID = 0,
                         !.PnL = 0, !.IsForced = FALSE, !.UpdateSLLogic = "",
                         !.CloseLogic = "", !.ForcedCloseLogic = "",
                         !.Error = ""]
    IN IF InsertFails(tbl, t) THEN StoreResult(tbl, "insert_error", TRUE, 0)
       ELSE StoreResult(tbl \cup {row}, "", TRUE, 0)

\* the row r after the UPDATE that UpdateTrade builds from t
UpdatedRow(r, t) ==
    LET r1 == IF t.UpdateSLLogic # ""
              THEN [r EXCEPT !.UpdateSLLogic = t.UpdateSLLogic] ELSE r
        r2 == IF t.IsForced
              THEN IF t.ForcedCloseLogic # ""
                   THEN [r1 EXCEPT !.ForcedCloseLogic = t.ForcedCloseLogic]
                   ELSE r1
              ELSE IF t.CloseLogic # ""
                   THEN [r1 EXCEPT !.CloseLogic = t.CloseLogic]
                   ELSE r1
    IN IF t.CloseTime = NullTime THEN r1
       ELSE [r2 EXCEPT !.CloseTime = t.CloseTime, !.ClosePrice = t.ClosePrice,
                       !.CloseOrderID = t.CloseOrderID, !.PnL = t.PnL,
                       !.IsForced = t.IsForced, !.Error = t.Error]

\* UpdateTrade: nothing to set returns nil at once; otherwise the UPDATE runs
\* WHERE symbol = ? AND open_time = ? and only a failure of Exec is an error
UpdateTrade(tbl, t) ==
    LET hit == {r \in tbl : r.Symbol = t.Symbol /\ r.OpenTime = t.OpenTime}
    IN IF t.UpdateSLLogic = "" /\ t.CloseTime = NullTime
       THEN StoreResult(tbl, "", FALSE, 0)
       ELSE StoreResult((tbl \ hit) \cup {UpdatedRow(r, t) : r \in hit}, "",
                        TRUE, Cardinality(hit))

\* CreateOrUpdateTrade: UpdateTrade when a row of (symbol, open_time) exists,
\* CreateTrade otherwise
CreateOrUpdateTrade(tbl, t) ==
    IF \E r \in tbl : r.Symbol = t.Symbol /\ r.OpenTime = t.OpenTime
    THEN UpdateTrade(tbl, t)
    ELSE CreateTrade(tbl, t)

NoTradeOp == [op |-> "none", err |-> "", executed |-> FALSE, matched |-> 0]

\* the trade records the operations of the table are called with
StoreOpenTimes == {1, 2}

StoreCloseTimes == {NullTime, 5, 6}

TradeInputs ==
    {TradeRow(<<"BTCUSDT", "long", openT>>, "BTCUSDT", "long", openT, closeT,
              forced, sl, cl, fcl) :
        openT \in StoreOpenTimes, closeT \in StoreCloseTimes,
        forced \in BOOLEAN, sl \in {"", "move stop"}, cl \in {"", "target hit"},
        fcl \in {"", "loss limit"}}

\* one call of an operation of the table
StoreCall(op, r) ==
    /\ trades' = r.trades
    /\ tradeLog' = [op |-> op, err |-> r.err, executed |-> r.executed,
                    matched |-> r.matched]
    /\ UNCHANGED <<now, config, isRunning, callCount, riskVars,
                   forcedClosedPositions, closingPositions, decisionRecords,
                   positions, totalEquity, runPc, cyclePc, tickerPending,
                   stopLossPending, lastWatchdogTime, closeVars, forcedActions,
                   handlerLog, execVars, positionFirstSeenTime, venueFills, logicVars, lockVars>>

StoreLogTrade == \E t \in TradeInputs : StoreCall("LogTrade", LogTrade(trades, t))

StoreCreateTrade ==
    \E t \in TradeInputs : StoreCall("CreateTrade", CreateTrade(trades, t))

StoreUpdateTrade ==
    \E t \in TradeInputs : StoreCall("UpdateTrade", UpdateTrade(trades, t))

StoreCreateOrUpdateTrade ==
    \E t \in TradeInputs :
       StoreCall("CreateOrUpdateTrade", CreateOrUpdateTrade(trades, t))

(***************************************************************************)
(* The trade recorder, called when a close order has been filled.  What    *)
(* GetLatestRecords holds about the open of the position is an input:      *)
(* "open_action" a successful open action not closed since, "open_decision"*)
(* an open decision of the symbol and side only, "none" neither; recT is   *)
(* the time of that action or record.  GetPositions no longer reports the  *)
(* closed position.                                                        *)
(***************************************************************************)
RecordLookups == {"open_action", "open_decision", "none"}

\* buildTradeRecord and the storage.TradeRecord made from it: the two logic
\* columns are not among the fields that are copied
ClosedTrade(k, openT, closeT, isForced) ==
    TradeRow(<<SymbolOf(k), SideOf(k), openT>>, SymbolOf(k), SideOf(k), openT,
             closeT, isForced, "", "", "")

\* recordTradeHistoryFromPosition: the open time is the first-seen time
\* (milliseconds) or that of the record with the open decision; without an
\* entry price nothing is recorded
recordTradeHistoryFromPosition(tbl, k, closeT, isForced, firstSeen, lookup, recT) ==
    LET openT == IF k \in DOMAIN firstSeen THEN firstSeen[k] \div 1000 ELSE recT
    IN IF lookup = "none" THEN StoreResult(tbl, "", FALSE, 0)
       ELSE LogTrade(tbl, ClosedTrade(k, openT, closeT, isForced))

\* recordTradeHistory: the trade is built from the open action when one is
\* found, from the position otherwise
recordTradeHistory(tbl, k, closeT, firstSeen, lookup, recT) ==
    IF lookup = "open_action"
    THEN LogTrade(tbl, ClosedTrade(k, recT, closeT, FALSE))
    ELSE recordTradeHistoryFromPosition(tbl, k, closeT, FALSE, firstSeen,
                                        lookup, recT)

\* the store keeps the row
DeleteLogic_keeps(store, k) == store

\* PositionLogicWrapper.DeleteLogic
DeleteLogic(store, k) == MapDelete(store, k)

\* what a close leaves behind
CloseLog(action, k, out) ==
    [action |-> action, key |-> k, result |-> out, submitted |-> SubmitsCloseOrder(out),
     held |-> k \in DOMAIN positions, calls |-> <<>>,
     timed |-> k \in DOMAIN positionFirstSeenTime,
     stored |-> k \in DOMAIN positionLogic]

\* executeCloseLongWithRecord / executeCloseShortWithRecord: after the order
\* the lock entry and the first-seen time are deleted, then the logic, then
\* the trade is recorded
ExecuteClose ==
    \E k \in DOMAIN positions, fault \in {"ok", "market", "close"},
       lookup \in RecordLookups, recT \in 0..now :
       LET out == executeCloseOutcome(forcedClosedPositions, k, fault)
           seen == MapDelete(positionFirstSeenTime, k)
           rec == recordTradeHistory(trades, k, now, seen, lookup, recT)
       IN /\ closingPositions' = LockTableAfterAIClose(closingPositions, k, out)
          /\ execLog' = CloseLog("close", k, out)
          /\ IF out = "closed"
             THEN /\ positions' = MapDelete(positions, k)
                  /\ positionFirstSeenTime' = seen
                  /\ positionLogic' = DeleteLogic(positionLogic, k)
                  /\ trades' = rec.trades
                  /\ tradeLog' = [op |-> "recordTradeHistory", err |-> rec.err,
                                  executed |-> rec.executed, matched |-> 0]
             ELSE UNCHANGED <<positions, positionFirstSeenTime, positionLogic,
                              trades, tradeLog>>
          /\ UNCHANGED <<now, config, isRunning, callCount, riskVars,
                         forcedClosedPositions, decisionRecords, totalEquity,
                         runPc, cyclePc, tickerPending, stopLossPending,
                         lastWatchdogTime, closeVars, forcedActions, handlerLog,
                         llmDecisions, issued, exchangeOrders, execCount,
                         record, venueFills, logicVars, lockVars>>

\* forceClosePosition and, after its success, the deletion of the first-seen
\* time by the pass that called it (checkPositionStopLossOnly, runCycle)
ForceClose ==
    \E k \in DOMAIN positions, fault \in {"ok", "market", "close"},
       lookup \in RecordLookups, recT \in 0..now :
       LET out == ForceCloseOutcome(forcedClosedPositions, k, now, fault)
           rec == recordTradeHistoryFromPosition(trades, k, now, TRUE,
                                                 positionFirstSeenTime, lookup,
                                                 recT)
       IN /\ forcedClosedPositions' =
                 RegistryAfterForceClose(forcedClosedPositions, k, now, out)
          /\ closingPositions' = LockTableAfterForceClose(closingPositions, k, out)
          /\ execLog' = CloseLog("force_close", k, out)
          /\ IF out = "closed"
             THEN /\ positions' = MapDelete(positions, k)
                  /\ positionLogic' = DeleteLogic(positionLogic, k)
                  /\ trades' = rec.trades
                  /\ tradeLog' = [op |-> "recordTradeHistoryFromAction",
                                  err |-> rec.err, executed |-> rec.executed,
                                  matched |-> 0]
                  /\ positionFirstSeenTime' = MapDelete(positionFirstSeenTime, k)
             ELSE UNCHANGED <<positions, positionFirstSeenTime, positionLogic,
                              trades, tradeLog>>
          /\ UNCHANGED <<now, config, isRunning, callCount, riskVars,
                         decisionRecords, totalEquity, runPc, cyclePc,
                         tickerPending, stopLossPending, lastWatchdogTime,
                         closeVars, forcedActions, handlerLog, llmDecisions,
                         issued, exchangeOrders, execCount, record, venueFills, logicVars, lockVars>>

\* time passes between the closes
TradeTick ==
    /\ now < MaxTradeNow
    /\ now' = now + 1
    /\ UNCHANGED <<config, isRunning, callCount, riskVars, forcedClosedPositions,
                   closingPositions, decisionRecords, positions, totalEquity,
                   runPc, cyclePc, tickerPending, stopLossPending,
                   lastWatchdogTime, closeVars, forcedActions, handlerLog,
                   execVars, tradeVars, logicVars, lockVars>>

(***************************************************************************)
(* SyncManualTradesFromExchange.  A fill of the exchange carries its order *)
(* id, side, time, realized pnl and price (0: no usable price); every fill *)
(* is of BTCUSDT and of quantity 1.                                        *)
(***************************************************************************)
FillTimes == {1, 2, 3}

\* fills that open (realized pnl 0) and fills that close
VenueFillUniverse ==
    [orderId : {3}, side : {"BUY", "SELL"}, time : FillTimes,
     realizedPnl : {0}, price : {0, 100}]
    \cup [orderId : {1, 2}, side : {"BUY", "SELL"}, time : FillTimes,
          realizedPnl : {5}, price : {100}]

\* the fills of one order are of one side, and the exchange reports one
\* opening fill per side and time
WellFormed(F) ==
    \A f, g \in F :
       /\ (f.realizedPnl # 0 /\ g.realizedPnl # 0 /\ f.orderId = g.orderId)
             => f.side = g.side
       /\ (f.realizedPnl = 0 /\ g.realizedPnl = 0 /\ f.side = g.side
           /\ f.time = g.time) => f = g

VenueHistories ==
    {F \in {{a, b, c, d} : a, b, c, d \in VenueFillUniverse} : WellFormed(F)}

\* GetLatestTrades: the rows that have a close_time
GetLatestTrades(tbl) == {r \in tbl : r.CloseTime # NullTime}

\* localTradeMap: the close order ids of the local rows
LocalOrderIds(tbl) ==
    {r.CloseOrderID : r \in {x \in GetLatestTrades(tbl) : x.CloseOrderID > 0}}

TradeSideOf(side) == IF side = "SELL" THEN "long" ELSE "short"

\* the fills that are aggregated: of an order not yet local, with a price,
\* and closing
AggregatedFills(F, tbl) ==
    {f \in F : /\ f.orderId \notin LocalOrderIds(tbl)
               /\ f.price # 0
               /\ f.realizedPnl # 0}

RECURSIVE SumPnl(_)
SumPnl(S) ==
    IF S = {} THEN 0
    ELSE LET f == CHOOSE x \in S : TRUE
         IN f.realizedPnl + SumPnl(S \ {f})

RECURSIVE SumPrice(_)
SumPrice(S) ==
    IF S = {} THEN 0
    ELSE LET f == CHOOSE x \in S : TRUE
         IN f.price + SumPrice(S \ {f})

MaxOf(S) == CHOOSE x \in S : \A y \in S : y <= x

\* the aggregatedTrade of order o
Aggregate(F, tbl, o) ==
    LET fills == {f \in AggregatedFills(F, tbl) : f.orderId = o}
    IN [orderId |-> o,
        tradeSide |-> TradeSideOf((CHOOSE f \in fills : TRUE).side),
        lastTime |-> MaxOf({f.time : f \in fills}),
        totalRealizedPnl |-> SumPnl(fills),
        weightedPrice |-> SumPrice(fills) \div Cardinality(fills)]

\* the open time of the trade of agg: that of the latest opposite fill with
\* no realized pnl before the close when that fill has a price, else that of
\* the latest local row of the side opened before the close; 0 without
\* either (the order is passed over)
OpenTimeFor(F, tbl, agg) ==
    LET venue == {f \in F : /\ TradeSideOf(f.side) # agg.tradeSide
                            /\ f.realizedPnl = 0
                            /\ f.time < agg.lastTime}
        best == CHOOSE f \in venue : \A g \in venue : g.time <= f.time
        local == {r \in GetLatestTrades(tbl) :
                     /\ r.Symbol = "BTCUSDT"
                     /\ r.Side = agg.tradeSide
                     /\ r.OpenTime < agg.lastTime}
    IN IF venue # {} /\ best.price # 0 THEN best.time
       ELSE IF local # {} THEN MaxOf({r.OpenTime : r \in local})
       ELSE 0

\* the TradeRecord built for agg
SyncedTrade(agg, openT) ==
    [TradeRow(<<"BTCUSDT", agg.tradeSide, agg.orderId>>, "BTCUSDT",
              agg.tradeSide, openT, agg.lastTime, FALSE, "", "", "")
        EXCEPT !.ClosePrice = agg.weightedPrice,
               !.CloseOrderID = agg.orderId,
               !.PnL = agg.totalRealizedPnl]

\* missingTrades
MissingTrades(F, tbl) ==
    LET aggs == {Aggregate(F, tbl, o) :
                   o \in {f.orderId : f \in AggregatedFills(F, tbl)}}
    IN {SyncedTrade(agg, OpenTimeFor(F, tbl, agg)) :
           agg \in {a \in aggs : OpenTimeFor(F, tbl, a) # 0}}

\* the rows are inserted one by one; a failed insert is logged and passed over
RECURSIVE LogTrades(_, _)
LogTrades(tbl, seq) ==
    IF seq = <<>> THEN tbl
    ELSE LogTrades(LogTrade(tbl, Head(seq)).trades, Tail(seq))

\* one run; the rows are inserted in the order the map of the orders yields
SyncManualTradesFromExchange ==
    /\ tradeLog.runs < MaxSyncRuns
    /\ LET missing == MissingTrades(venueFills, trades)
       IN \E seq \in [1..Cardinality(missing) -> missing] :
             /\ \A i, j \in DOMAIN seq : seq[i] = seq[j] => i = j
             /\ trades' = LogTrades(trades, seq)
             /\ tradeLog' =
                   [op |-> "SyncManualTradesFromExchange", err |-> "",
                    executed |-> missing # {}, matched |-> 0,
                    runs |-> tradeLog.runs + 1,
                    attempts |-> Cardinality(missing),
                    inserted |-> Cardinality(trades') - Cardinality(trades),
                    synced |-> tradeLog.synced + Cardinality(trades')
                                  - Cardinality(trades)]
    /\ UNCHANGED <<now, config, isRunning, callCount, riskVars,
                   forcedClosedPositions, closingPositions, decisionRecords,
                   positions, totalEquity, runPc, cyclePc, tickerPending,
                   stopLossPending, lastWatchdogTime, closeVars, forcedActions,
                   handlerLog, execVars, positionFirstSeenTime, venueFills, logicVars, lockVars>>

(***************************************************************************)
(* PositionLogicWrapper over PositionLogicStorage.  The saves are made by  *)
(* the cycle goroutine alone; GetLogic and DeleteLogic are called by the   *)
(* cycle, the watchdog and the API and are taken statement by statement.   *)
(* A pointer that may be nil is the empty set or the set of its target.    *)
(***************************************************************************)
LogicCallers == {"cycle", "watchdog", "api"}

\* the goroutines that use the risk fields: the cycle runner and a status query
RiskGoroutines == {"cycle", "status"}

NoLogicCall == [op |-> "none", key |-> "", pc |-> "idle", dbLogic |-> {},
                ret |-> {}, later |-> FALSE]

NoSave == [op |-> "none", key |-> "", named |-> {}, deleted |-> {}, calls |-> 0]

\* INSERT ... ON CONFLICT(symbol, side) DO UPDATE SET column = excluded.column
Upsert(store, k, column, v) == MapPut(store, k, [GetLogic(store, k) EXCEPT ![column] = v])

SaveEntryLogic(store, k, v) == Upsert(store, k, "EntryLogic", v)

SaveExitLogic(store, k, v) == Upsert(store, k, "ExitLogic", v)

SaveStopLoss(store, k, v) == Upsert(store, k, "StopLoss", v)

SaveTakeProfit(store, k, v) == Upsert(store, k, "TakeProfit", v)

SaveFirstSeenTime(store, k, v) == Upsert(store, k, "FirstSeenTime", v)

\* the saves of the store with the values they are called with
LogicSaves ==
    [op : {"SaveEntryLogic"}, v : {"entry"}, w : {0}]
    \cup [op : {"SaveExitLogic"}, v : {"exit"}, w : {0}]
    \cup [op : {"SaveStopLoss"}, v : {0, 8000}, w : {0}]
    \cup [op : {"SaveTakeProfit"}, v : {0, 12000}, w : {0}]
    \cup [op : {"SaveFirstSeenTime"}, v : {2000}, w : {0}]
    \cup [op : {"SaveStopLossAndTakeProfit"}, v : {0, 8000}, w : {0, 12000}]

StoreAfterSave(store, k, s) ==
    CASE s.op = "SaveEntryLogic" -> SaveEntryLogic(store, k, s.v)
      [] s.op = "SaveExitLogic" -> SaveExitLogic(store, k, s.v)
      [] s.op = "SaveStopLoss" -> SaveStopLoss(store, k, s.v)
      [] s.op = "SaveTakeProfit" -> SaveTakeProfit(store, k, s.v)
      [] s.op = "SaveFirstSeenTime" -> SaveFirstSeenTime(store, k, s.v)
      [] OTHER -> SaveStopLossAndTakeProfit(store, k, s.v, s.w)

\* decision.PositionLogic of a row of the table: it has no first-seen time
ToDecisionLogic(row) ==
    [EntryLogic |-> row.EntryLogic, ExitLogic |-> row.ExitLogic,
     StopLoss |-> row.StopLoss, TakeProfit |-> row.TakeProfit]

\* the cache after a save of the wrapper: the entry is created when it is
\* missing, then the saved field is set; SaveStopLossAndTakeProfit copies
\* the row it reads back, keeping a cached text the row has none for
CacheAfterSave(c, store, k, s) ==
    LET old == IF k \in DOMAIN c THEN c[k] ELSE ToDecisionLogic(NoLogic)
        row == store[k]
    IN MapPut(c, k,
          CASE s.op = "SaveEntryLogic" -> [old EXCEPT !.EntryLogic = s.v]
            [] s.op = "SaveExitLogic" -> [old EXCEPT !.ExitLogic = s.v]
            [] s.op = "SaveStopLoss" -> [old EXCEPT !.StopLoss = s.v]
            [] s.op = "SaveTakeProfit" -> [old EXCEPT !.TakeProfit = s.v]
            [] s.op = "SaveFirstSeenTime" -> old
            [] OTHER ->
                 [EntryLogic |-> IF row.EntryLogic # "" THEN row.EntryLogic
                                 ELSE old.EntryLogic,
                  ExitLogic |-> IF row.ExitLogic # "" THEN row.ExitLogic
                                ELSE old.ExitLogic,
                  StopLoss |-> row.StopLoss, TakeProfit |-> row.TakeProfit])

\* the columns a save is called to set
NamedColumns(s) ==
    CASE s.op = "SaveEntryLogic" -> {"EntryLogic"}
      [] s.op = "SaveExitLogic" -> {"ExitLogic"}
      [] s.op = "SaveStopLoss" -> {"StopLoss"}
      [] s.op = "SaveTakeProfit" -> {"TakeProfit"}
      [] s.op = "SaveFirstSeenTime" -> {"FirstSeenTime"}
      [] OTHER -> (IF s.v > 0 THEN {"StopLoss"} ELSE {})
                     \cup (IF s.w > 0 THEN {"TakeProfit"} ELSE {})

\* a save of the wrapper by the cycle goroutine: the store, then the cache
SaveLogic ==
    \E k \in Keys, s \in LogicSaves :
       /\ logicCalls["cycle"].pc = "idle"
       /\ logicLog.calls < MaxLogicCalls
       /\ positionLogic' = StoreAfterSave(positionLogic, k, s)
       /\ cache' = CacheAfterSave(cache, positionLogic', k, s)
       /\ logicLog' = [op |-> s.op, key |-> k, named |-> NamedColumns(s),
                       deleted |-> logicLog.deleted \ {k},
                       calls |-> logicLog.calls + 1]
       /\ logicCalls' = [c \in LogicCallers |->
                           IF logicCalls[c].key = k
                           THEN [logicCalls[c] EXCEPT !.later = FALSE]
                           ELSE logicCalls[c]]
       /\ UNCHANGED <<runVarsOfLogic, lockVars>>

\* a goroutine calls GetLogic
GetLogicBegin ==
    \E c \in LogicCallers, k \in Keys :
       /\ logicCalls[c].pc = "idle"
       /\ logicLog.calls < MaxLogicCalls
       /\ logicCalls' = [logicCalls EXCEPT ![c] =
                            [op |-> "GetLogic", key |-> k, pc |-> "query",
                             dbLogic |-> {}, ret |-> {},
                             later |-> k \in logicLog.deleted]]
       /\ logicLog' = [logicLog EXCEPT !.calls = @ + 1]
       /\ UNCHANGED <<positionLogic, cache, runVarsOfLogic, lockVars>>

\* dbLogic, err := w.storage.GetLogic(symbol, side)
GetLogicQuery ==
    \E c \in LogicCallers :
       /\ logicCalls[c].pc = "query"
       /\ LET k == logicCalls[c].key
              db == IF k \in DOMAIN positionLogic THEN {positionLogic[k]} ELSE {}
          IN logicCalls' = [logicCalls EXCEPT ![c].dbLogic = db,
                               ![c].pc = IF db = {} THEN "cacheRead" ELSE "cacheWrite"]
       /\ UNCHANGED <<positionLogic, cache, logicLog, runVarsOfLogic, lockVars>>

\* no row: the cached logic is returned when there is one
GetLogicCacheRead ==
    \E c \in LogicCallers :
       /\ logicCalls[c].pc = "cacheRead"
       /\ LET k == logicCalls[c].key
          IN logicCalls' = [logicCalls EXCEPT
                               ![c].ret = IF k \in DOMAIN cache THEN {cache[k]} ELSE {},
                               ![c].pc = "done"]
       /\ UNCHANGED <<positionLogic, cache, logicLog, runVarsOfLogic, lockVars>>

\* a row: it is converted, put into the cache and returned
GetLogicCacheWrite ==
    \E c \in LogicCallers :
       /\ logicCalls[c].pc = "cacheWrite"
       /\ LET k == logicCalls[c].key
              logic == ToDecisionLogic(CHOOSE r \in logicCalls[c].dbLogic : TRUE)
          IN /\ cache' = MapPut(cache, k, logic)
             /\ logicCalls' = [logicCalls EXCEPT ![c].ret = {logic}, ![c].pc = "done"]
       /\ UNCHANGED <<positionLogic, logicLog, runVarsOfLogic, lockVars>>

\* the cycle or the watchdog calls DeleteLogic
DeleteLogicBegin ==
    \E c \in {"cycle", "watchdog"}, k \in Keys :
       /\ logicCalls[c].pc = "idle"
       /\ logicLog.calls < MaxLogicCalls
       /\ logicCalls' = [logicCalls EXCEPT ![c] =
                            [NoLogicCall EXCEPT !.op = "DeleteLogic", !.key = k,
                                                !.pc = "delete"]]
       /\ logicLog' = [logicLog EXCEPT !.calls = @ + 1]
       /\ UNCHANGED <<positionLogic, cache, runVarsOfLogic, lockVars>>

\* err := w.storage.DeleteLogic(symbol, side)
DeleteLogicStore ==
    \E c \in LogicCallers :
       /\ logicCalls[c].pc = "delete"
       /\ positionLogic' = DeleteLogic(positionLogic, logicCalls[c].key)
       /\ logicCalls' = [logicCalls EXCEPT ![c].pc = "cacheDelete", ![c].later = TRUE]
       /\ UNCHANGED <<cache, logicLog, runVarsOfLogic, lockVars>>

\* delete(w.cache, posKey), and DeleteLogic returns; the key counts as
\* deleted unless a save of it came after the row was deleted
DeleteLogicCache ==
    \E c \in LogicCallers :
       /\ logicCalls[c].pc = "cacheDelete"
       /\ cache' = MapDelete(cache, logicCalls[c].key)
       /\ logicCalls' = [logicCalls EXCEPT ![c].pc = "done"]
       /\ logicLog' = [logicLog EXCEPT
                          !.deleted = IF logicCalls[c].later
                                      THEN @ \cup {logicCalls[c].key} ELSE @]
       /\ UNCHANGED <<positionLogic, runVarsOfLogic, lockVars>>

\* the caller goes on
LogicReturn ==
    \E c \in LogicCallers :
       /\ logicCalls[c].pc = "done"
       /\ logicCalls' = [logicCalls EXCEPT ![c] = NoLogicCall]
       /\ UNCHANGED <<positionLogic, cache, logicLog, runVarsOfLogic, lockVars>>

(***************************************************************************)
(* The state after NewAutoTrader and the first statement of Run            *)
(***************************************************************************)
\* every key holds a position, marked at its entry price
InitialPositions ==
    [k \in Keys |-> [entryPrice |-> 100, markPrice |-> 100,
                     leverage |-> LeverageOf(k)]]

InitTrader(cfgs) ==
    /\ now = 0
    /\ config \in cfgs
    /\ isRunning = 1
    /\ callCount = 0
    /\ stopUntil = 0
    /\ lastResetTime = 0
    /\ dailyStartEquity = config.InitialBalance
    /\ dailyPnL = 0
    /\ peakEquity = config.InitialBalance
    /\ forcedClosedPositions = EmptyMap
    /\ closingPositions = EmptyMap
    /\ decisionRecords = {}
    /\ totalEquity = config.InitialBalance
    /\ runPc = "start"
    /\ cyclePc = "idle"
    /\ tickerPending = FALSE
    /\ stopLossPending = FALSE
    /\ lastWatchdogTime = 0
    /\ forcedActions = NoActions
    /\ handlerLog = NoCycle
    /\ closeCalls = [c \in Callers |-> NoCall]
    /\ mutexOwner = [m \in MutexIds |-> "free"]
    /\ closeOrders = {}
    /\ llmDecisions = <<>>
    /\ issued = <<>>
    /\ execLog = NoExec
    /\ record = NoRecord
    /\ execCount = 0
    /\ cache = EmptyMap
    /\ logicCalls = [c \in LogicCallers |-> NoLogicCall]
    /\ logicLog = NoSave
    /\ riskMu = {}
    /\ riskCalls = [g \in RiskGoroutines |-> "idle"]

\* the trades table is empty, no open time is remembered, the exchange
\* reports no fill
NoTradeHistory ==
    /\ trades = {}
    /\ tradeLog = NoTradeOp
    /\ positionFirstSeenTime = EmptyMap
    /\ venueFills = {}

\* nothing stored and no order placed for any position
NothingStored ==
    /\ positionLogic = EmptyMap
    /\ exchangeOrders = {}

Init ==
    /\ InitTrader(RunConfigs)
    /\ NoTradeHistory
    /\ positions = InitialPositions
    /\ NothingStored

Next ==
    \/ CycleStart
    \/ CycleFinish
    \/ WatchdogTick
    \/ Stop
    \/ MarketMove
    \/ ClockTick(WatchdogInterval, MaxNow, MaxCycles)

Spec == Init /\ [][Next]_vars

NextCool ==
    \/ CycleStart
    \/ CycleFinish
    \/ WatchdogTick
    \/ Stop
    \/ MarketMove
    \/ ClockTick(CoolStep, MaxCoolNow, MaxCycles)

InitCool ==
    /\ InitTrader(WatchdogConfigs)
    /\ NoTradeHistory
    /\ positions = InitialPositions
    /\ NothingStored

SpecCool == InitCool /\ [][NextCool]_vars

\* the cool-down with one position held
InitRetry ==
    /\ InitTrader(RunConfigs)
    /\ NoTradeHistory
    /\ positions = [k \in {"BTCUSDT_long"} |-> InitialPositions[k]]
    /\ NothingStored

\* Run serves its two tickers: a handler that can run does run, the LLM call
\* returns, and the clock goes on
SpecRetry ==
    /\ InitRetry
    /\ [][NextCool]_vars
    /\ WF_vars(CycleStart)
    /\ WF_vars(CycleFinish)
    /\ WF_vars(WatchdogTick)
    /\ WF_vars(ClockTick(CoolStep, MaxCoolNow, MaxCycles))

\* the risk governor: the equity moves, the mark prices rest at the entry
\* prices, the clock advances in half days
NextRisk ==
    \/ CycleStart
    \/ CycleFinish
    \/ WatchdogTick
    \/ EquityMove
    \/ ClockTick(RiskStep, MaxRiskNow, MaxRiskCycles)

InitRisk ==
    /\ InitTrader(RiskConfigs)
    /\ NoTradeHistory
    /\ positions = [k \in {"BTCUSDT_long"} |-> InitialPositions[k]]
    /\ NothingStored

SpecRisk == InitRisk /\ [][NextRisk]_vars

\* the risk fields, written by the cycle and read by GetStatus
NextMutex ==
    \/ RiskBegin
    \/ RiskLock
    \/ FallbackWrite
    \/ ResetWrite
    \/ StoreLastResetTimeBegin
    \/ StoreLastResetTimeEnd
    \/ CheckWrite
    \/ StoreStopUntilBegin
    \/ StoreStopUntilEnd
    \/ GetStatusRLock
    \/ GetStatusReturn
    \/ riskCalls["cycle"] = "idle" /\ EquityMove
    \/ RiskClock

SpecMutex == InitRisk /\ [][NextMutex]_vars

\* the two force-close passes over two open positions: the watchdog tick
\* and the pass of a halting cycle
NextPass ==
    \/ CycleStart
    \/ CycleFinish
    \/ WatchdogTick
    \/ EquityMove
    \/ MarketMove
    \/ ClockTick(CoolStep, CoolStep, MaxCycles)

InitPass ==
    /\ InitTrader(PassConfigs)
    /\ NoTradeHistory
    /\ positions = InitialPositions
    /\ NothingStored

SpecPass == InitPass /\ [][NextPass]_vars

\* positions the trader opened or found open: a first-seen time and a logic
\* row exist for some of them
InitTrade ==
    /\ InitTrader(RunConfigs)
    /\ positions = InitialPositions
    /\ exchangeOrders = {}
    /\ \E K \in SUBSET Keys :
          positionLogic = [k \in K |-> [NoLogic EXCEPT !.StopLoss = 8000,
                                                      !.TakeProfit = 12000]]
    /\ \E K \in SUBSET Keys : positionFirstSeenTime = [k \in K |-> 0]
    /\ trades = {}
    /\ tradeLog = NoTradeOp
    /\ venueFills = {}

\* closes by the decision executor and by the force-close passes, each with
\* its record in the trade history
SpecTrade == InitTrade /\ [][ExecuteClose \/ ForceClose \/ TradeTick]_vars

\* a fill history of the exchange and a table that is empty or holds the
\* recorded close of a long position opened at 1
InitSync ==
    /\ InitTrader(RunConfigs)
    /\ positions = InitialPositions
    /\ NothingStored
    /\ positionFirstSeenTime = EmptyMap
    /\ trades \in {{}, {ClosedTrade("BTCUSDT_long", 1, 2, FALSE)}}
    /\ tradeLog = [NoTradeOp EXCEPT !.op = "none"] @@ [runs |-> 0, attempts |-> 0,
                                                       inserted |-> 0, synced |-> 0]
    /\ venueFills \in VenueHistories

\* the table holds a row for some of the positions
InitLogic ==
    /\ InitTrader(RunConfigs)
    /\ NoTradeHistory
    /\ positions = InitialPositions
    /\ exchangeOrders = {}
    /\ \E K \in SUBSET Keys :
          positionLogic = [k \in K |->
                             [EntryLogic |-> "entry0", ExitLogic |-> "exit0",
                              StopLoss |-> 7000, TakeProfit |-> 11000,
                              FirstSeenTime |-> 1000]]

SpecLogic ==
    InitLogic /\ [][\/ SaveLogic \/ GetLogicBegin \/ GetLogicQuery
                    \/ GetLogicCacheRead \/ GetLogicCacheWrite
                    \/ DeleteLogicBegin \/ DeleteLogicStore
                    \/ DeleteLogicCache \/ LogicReturn]_vars

\* the saves of the cycle goroutine alone
SpecSave == InitLogic /\ [][SaveLogic]_vars

\* the reconciler run again and again on one fill history
SpecSync == InitSync /\ [][SyncManualTradesFromExchange]_vars

\* the operations of the trades table, called in any order
NextStore ==
    \/ StoreLogTrade
    \/ StoreCreateTrade
    \/ StoreUpdateTrade
    \/ StoreCreateOrUpdateTrade

SpecStore == Init /\ [][NextStore]_vars

\* the close functions called by goroutines at the same time, as their
\* locking provides for
SpecClose == Init /\ [][CloseStep]_vars

\* open decisions, with no position or with one of 100 USD on the exchange
InitOpen ==
    /\ InitTrader(RunConfigs)
    /\ NoTradeHistory
    /\ positions \in
          {EmptyMap} \cup
          {[k \in {x} |-> [entryPrice |-> 100, markPrice |-> 100,
                           leverage |-> LeverageOf(x), notional |-> 10000]] :
             x \in Keys}
    /\ NothingStored

SpecOpen == InitOpen /\ [][ExecuteOpen]_vars

\* an open decision executed by the decision loop of the cycle in flight
CycleOpen == cyclePc = "llm" /\ ExecuteOpen

\* the first cycle of a trader with the drawdown rule, whose decision loop
\* executes an open decision
NextHalt ==
    \/ EquityMove
    \/ CycleStart
    \/ CycleOpen
    \/ CycleFinish

InitHalt ==
    /\ InitTrader(PassConfigs)
    /\ NoTradeHistory
    /\ positions = EmptyMap
    /\ NothingStored

SpecHalt == InitHalt /\ [][NextHalt]_vars

\* validated opens on an account without positions
InitSafety ==
    /\ InitTrader(RunConfigs)
    /\ NoTradeHistory
    /\ positions = EmptyMap
    /\ NothingStored

SpecSafety == InitSafety /\ [][ExecuteValidatedOpen]_vars

\* the orders the exchange holds when every stored price was placed
PlacedOrders(store) ==
    {[key |-> k, kind |-> "stop", price |-> store[k].StopLoss] :
        k \in {x \in DOMAIN store : store[x].StopLoss > 0}}
    \cup {[key |-> k, kind |-> "take", price |-> store[k].TakeProfit] :
             k \in {x \in DOMAIN store : store[x].TakeProfit > 0}}

\* updates of held positions, their prices stored and placed by earlier
\* opens and updates
InitUpdate ==
    /\ InitTrader(RunConfigs)
    /\ NoTradeHistory
    /\ positions \in {InitialPositions,
                      [k \in {"BTCUSDT_long"} |-> InitialPositions[k]]}
    /\ \E K \in SUBSET DOMAIN positions :
          positionLogic \in {st \in [K -> UNION {StoredLogic(k) : k \in Keys}] :
                               \A k \in K : st[k] \in StoredLogic(k)}
    /\ exchangeOrders = PlacedOrders(positionLogic)

SpecUpdate == InitUpdate /\ [][ExecuteUpdateStopLoss \/ ExecuteUpdateTakeProfit]_vars

\* the decision loop of a cycle opens a position without stop and take; the
\* account has the margin, the order is filled or fails
ReopenDecisions ==
    {d \in OpenDecisions : d.PositionSizeUSD = 10000 /\ d.prices = <<0, 0>>}

CycleReopen ==
    /\ cyclePc = "llm"
    /\ ExecuteOpenOf(ReopenDecisions,
                     {a \in AccountReads : a.TotalEquity > 0}, {{}, {"Open"}})

\* the run loop of a trader whose cycles open positions again after the
\* watchdog closed them
NextReopen ==
    \/ CycleStart
    \/ CycleReopen
    \/ CycleFinish
    \/ WatchdogTick
    \/ MarketMove
    \/ ClockTick(CoolStep, MaxCoolNow, MaxCycles)

InitReopen ==
    /\ InitTrader(RunConfigs)
    /\ NoTradeHistory
    /\ positions = [k \in {"BTCUSDT_long"} |->
                      [entryPrice |-> 100, markPrice |-> 100,
                       leverage |-> LeverageOf(k), notional |-> 10000]]
    /\ NothingStored

SpecReopen == InitReopen /\ [][NextReopen]_vars

\* the decision loop of a cycle on an answer with invalid and failing
\* decisions
SpecLoop == Init /\ [][DecisionLoop \/ DecisionsDone]_vars

\* the decision list of a cycle, sorted and deduplicated
SpecPlan == Init /\ [][PlanDecisions \/ DecisionsDone]_vars

(***************************************************************************)
(* The order of execution within a cycle                                   *)
(***************************************************************************)
IsClose(d) == d.Action \in {"close_long", "close_short"}

IsOpen(d) == d.Action \in {"open_long", "open_short"}

IsHold(d) == d.Action \in {"hold", "wait"}

\* C11: in the executed list every close comes before every open and every
\* open before every hold/wait, and the list holds exactly the closes,
\* opens and holds the LLM returned.
C11_ClosesBeforeOpens ==
    /\ \A i \in 1..Len(issued) : \A j \in (i + 1)..Len(issued) :
          /\ ~(IsOpen(issued[i]) /\ IsClose(issued[j]))
          /\ ~(IsHold(issued[i]) /\ IsOpen(issued[j]))
    /\ \A i \in 1..Len(llmDecisions) :
          (IsClose(llmDecisions[i]) \/ IsOpen(llmDecisions[i])
              \/ IsHold(llmDecisions[i]))
             => Cardinality({j \in 1..Len(issued) :
                               issued[j] = llmDecisions[i]}) = 1

\* the LLM answered wait, open, close, and the loop runs close, open, wait
C11_Witness ==
    /\ Len(llmDecisions) = 3
    /\ IsHold(llmDecisions[1]) /\ IsOpen(llmDecisions[2])
    /\ IsClose(llmDecisions[3])
    /\ Len(issued) = 3
    /\ IsClose(issued[1]) /\ IsOpen(issued[2]) /\ IsHold(issued[3])

\* C12: of the update_sl (update_tp) decisions the LLM returned for one
\* symbol, exactly one is executed, and it is the one listed last.
C12_LastUpdateWins ==
    \A i \in 1..Len(llmDecisions) :
       llmDecisions[i].Action \in {"update_sl", "update_tp"} =>
          LET same == {j \in 1..Len(issued) :
                          /\ issued[j].Action = llmDecisions[i].Action
                          /\ issued[j].Symbol = llmDecisions[i].Symbol}
          IN /\ Cardinality(same) = 1
             /\ \A j \in same :
                   issued[j].n = LastIndex(llmDecisions, llmDecisions[i])

\* the places of runCycle where a write of a risk field is in progress
WriteInProgress ==
    {"fallback_locked", "reset_locked", "check_locked", "fallback_storing",
     "reset_storing", "halt_storing"}

\* C40: a write of dailyStartEquity, dailyPnL, peakEquity, lastResetTime or
\* stopUntil is in progress only while its goroutine holds riskMu, so no
\* write is in progress while GetStatus holds the mutex for its reads.
C40_WritesUnderRiskMu ==
    /\ riskCalls["cycle"] \in WriteInProgress => "cycle" \in riskMu
    /\ "status" \in riskMu => riskCalls["cycle"] \notin WriteInProgress

\* C39: decisions of one priority class are executed in the order the LLM
\* returned them.
C39_SortStable ==
    \A i, j \in 1..Len(issued) :
       (/\ i < j
        /\ getActionPriority(issued[i].Action) = getActionPriority(issued[j].Action))
          => issued[i].n < issued[j].n

(***************************************************************************)
(* Opening a position                                                      *)
(***************************************************************************)
\* C13: an open never submits its order while the exchange holds a position
\* of the same symbol and side.
C13_NoOpenOnHeldPosition ==
    (execLog.action = "open" /\ execLog.submitted) => ~execLog.held

\* C14: the margin of every open that submits its order is at most the
\* margin limit (80% with a single symbol, else 90%) of the equity read at
\* the pre-trade check.
C14_MarginWithinLimit ==
    (execLog.action = "open" /\ execLog.submitted) =>
       execLog.marginRequired * 100 <= execLog.maxMarginPct * execLog.equity

PlacesOrder(call) == call \in {"SetStopLoss", "SetTakeProfit"}

IsUpdate == execLog.action \in {"update_sl", "update_tp"}

C16_RollbackRestores ==
    (IsUpdate /\ execLog.result = "rolled_back") =>
       /\ OrdersOf(exchangeOrders, execLog.key) = execLog.ordersBefore
       /\ GetLogic(positionLogic, execLog.key) = execLog.logicBefore

\* the price an update asks for, and the stored price it is compared with
RequestedPrice ==
    IF execLog.action = "update_sl" THEN execLog.StopLoss ELSE execLog.TakeProfit

StoredPrice ==
    IF execLog.action = "update_sl" THEN execLog.logicBefore.StopLoss
    ELSE execLog.logicBefore.TakeProfit

\* the update found its position and a stored price to compare with
ReachedNoOpCheck ==
    /\ IsUpdate
    /\ execLog.result \notin {"invalid_price", "no_position"}
    /\ StoredPrice > 0

AbsDiff(a, b) == IF a >= b THEN a - b ELSE b - a

SkippedUntouched ==
    /\ execLog.result = "SKIPPED"
    /\ OrdersOf(exchangeOrders, execLog.key) = execLog.ordersBefore
    /\ GetLogic(positionLogic, execLog.key) = execLog.logicBefore

C36_StopNeverLoosens ==
    (IsUpdate /\ execLog.result = "ok" /\ execLog.logicBefore.StopLoss > 0) =>
       LET k == execLog.key
           s0 == execLog.logicBefore.StopLoss
           stops == {GetLogic(positionLogic, k).StopLoss}
                       \cup {o.price : o \in {x \in OrdersOf(exchangeOrders, k) :
                                                x.kind = "stop"}}
       IN \A s \in stops :
             IF SideOf(k) = "long" THEN s >= s0 ELSE s <= s0

(***************************************************************************)
(* Closing one position from several goroutines                            *)
(***************************************************************************)
\* C1: of a force-close and an AI close of the same position, racing in any
\* order, at most one calls CloseLong / CloseShort.
C1_OneCloseOrder ==
    \A k \in Keys :
       ~ \E f \in Callers, a \in Callers :
            /\ KindOf(f) = "force"
            /\ KindOf(a) = "ai"
            /\ <<f, k>> \in closeOrders
            /\ <<a, k>> \in closeOrders

\* the call is between closingLock.Lock() and closingLock.Unlock()
HoldsCloseLock(c, k) ==
    /\ closeCalls[c].key = k
    /\ closeCalls[c].pc \in {"check2", "market", "close", "cleanup", "unlock"}

\* C2: for every key, at most one caller at a time is between acquiring and
\* releasing the close-lock of that key.
C2_CloseLockExclusive ==
    \A k \in Keys : Cardinality({c \in Callers : HoldsCloseLock(c, k)}) <= 1

(***************************************************************************)
(* The watchdog and the forced-close registry                              *)
(***************************************************************************)
Attempted(out) == out \in {"market_error", "close_error", "closed"}

\* the leveraged pnl percentage of the open position k is <= -stop-loss
\* (10 when the configuration says 0), or take-profit is > 0 and the
\* percentage is >= take-profit
AtOrBeyondThreshold(k) ==
    LET pos == positions[k]
        pnl == PnlNum(pos, SideOf(k))
        sl == IF config.PositionStopLossPct = 0 THEN 10
              ELSE config.PositionStopLossPct
        tp == config.PositionTakeProfitPct
    IN \/ pnl <= -(sl * pos.entryPrice)
       \/ tp > 0 /\ pnl >= tp * pos.entryPrice

UnexpiredMark(k) ==
    /\ k \in DOMAIN forcedClosedPositions
    /\ now - forcedClosedPositions[k] <= 300

\* C3: on every watchdog tick that reads the positions, each open position
\* at or beyond its stop-loss threshold (10 when not configured) or its
\* positive take-profit threshold gets a force-close attempt unless an
\* unexpired registry mark exists for it, and a position strictly inside both
\* thresholds is neither attempted nor closed.
C3_WatchdogThresholds ==
    [][handlerLog'.path = "watchdog" =>
          \A k \in DOMAIN positions :
             /\ (AtOrBeyondThreshold(k) /\ ~UnexpiredMark(k))
                    => Attempted(forcedActions'[k])
             /\ ~AtOrBeyondThreshold(k)
                    => /\ forcedActions'[k] = "none"
                       /\ k \in DOMAIN positions'
                       /\ positions'[k] = positions[k]]_vars

\* a tick that closed the long position at its threshold and left the short
\* position, inside its thresholds, open
C3_Witness ==
    /\ handlerLog.path = "watchdog"
    /\ forcedActions["BTCUSDT_long"] = "closed"
    /\ forcedActions["ETHUSDT_short"] = "none"
    /\ "ETHUSDT_short" \in DOMAIN positions

\* C4: the watchdog runs every 10 seconds also while a cycle waits for the
\* LLM: during the wait the last watchdog tick is never more than one
\* interval old.
C4_WatchdogDuringCycle ==
    cyclePc = "llm" => now - lastWatchdogTime <= WatchdogInterval

\* C5: a force-close attempt for a key whose mark is younger than 5 minutes
\* is skipped (no exchange call, mark and position untouched); an attempt for
\* a key whose mark is older than 5 minutes clears the mark and goes on to
\* the exchange; no step removes or changes a mark younger than 5 minutes.
C5_CoolDown ==
    [][/\ \A k \in DOMAIN forcedClosedPositions :
          forcedActions'[k] # "none" =>
             /\ now < forcedClosedPositions[k] + 300
                    => /\ forcedActions'[k] = "skipped"
                       /\ k \in DOMAIN forcedClosedPositions'
                       /\ forcedClosedPositions'[k] = forcedClosedPositions[k]
                       /\ positions'[k] = positions[k]
             /\ now > forcedClosedPositions[k] + 300
                    => /\ Attempted(forcedActions'[k])
                       /\ k \in handlerLog'.cleared
                       /\ (k \in DOMAIN forcedClosedPositions'
                              => forcedClosedPositions'[k] = now)
       /\ \A k \in DOMAIN forcedClosedPositions :
             now < forcedClosedPositions[k] + 300
                => /\ k \in DOMAIN forcedClosedPositions'
                   /\ forcedClosedPositions'[k] = forcedClosedPositions[k]]_vars

\* a retry after the cool-down: the expired mark was cleared and the position
\* closed, while the other key was skipped under its younger mark
C5_Witness ==
    /\ "BTCUSDT_long" \in handlerLog.cleared
    /\ forcedActions["BTCUSDT_long"] = "closed"
    /\ forcedActions["ETHUSDT_short"] = "skipped"

\* C6: a force-close attempt that passed the registry check and failed
\* leaves a mark for its key stamped with the time of the failure.
C6_FailureLeavesMark ==
    \A k \in Keys :
       forcedActions[k] \in {"market_error", "close_error"}
          => /\ k \in DOMAIN forcedClosedPositions
             /\ forcedClosedPositions[k] = now

\* the position of key k was opened on a free key after the mark of k was
\* written: the mark belongs to an earlier position, closed by force
OpenedAfterMark(k) ==
    /\ k \in DOMAIN positions
    /\ k \in DOMAIN forcedClosedPositions
    /\ k \in DOMAIN positionFirstSeenTime
    /\ execLog.action = "open" /\ execLog.key = k
    /\ execLog.result = "ok" /\ ~execLog.held
    /\ forcedClosedPositions[k] * 1000 < positionFirstSeenTime[k]

\* C37: the mark of a position closed by force never suppresses the close of
\* a later position with the same key: a watchdog tick that finds the later
\* position in breach attempts its force-close, and a close decision of the
\* AI for it is executed.
C37_MarkOfClosedPositionInert ==
    [][\A k \in Keys :
         OpenedAfterMark(k) =>
            /\ (handlerLog'.path = "watchdog"
                  /\ WatchdogTriggered(positions[k], SideOf(k), config))
                    => Attempted(forcedActions'[k])
            /\ (cyclePc = "llm" /\ cyclePc' = "idle"
                  /\ handlerLog'.aiActions[k] # "none")
                    => handlerLog'.aiActions[k] \notin {"skipped", "already_forced"}]_vars

\* position k is held in breach of the stop-loss threshold by a running
\* trader
BreachedAndRunning(k) ==
    /\ isRunning = 1
    /\ k \in DOMAIN positions
    /\ StopLossTriggered(positions[k], SideOf(k), config)

\* the cool-down of a mark of k, if any, and one more tick end within the
\* time the clock covers
RetryDue(k) ==
    LET expiry == IF k \in DOMAIN forcedClosedPositions
                  THEN forcedClosedPositions[k] + PositionStopLossRetryTimeout
                  ELSE 0
        due == IF expiry > now THEN expiry ELSE now
    IN due + CoolStep <= MaxCoolNow

C22_ErrorsDoNotAbort ==
    \A i \in 1..Len(llmDecisions) :
       \E j \in 1..Len(record.Decisions) : record.Decisions[j].n = i

\* the positions a force-close pass goes through: those the watchdog finds at
\* a threshold, or all of them when a cycle halts trading
PassPositions(path, halt) ==
    IF path = "watchdog"
    THEN {k \in DOMAIN positions :
             WatchdogTriggered(positions[k], SideOf(k), config)}
    ELSE IF path = "llm" /\ halt # "none" THEN DOMAIN positions
    ELSE {}

\* C23: in one watchdog tick and in one force-close-all pass, when the
\* force-close of one position fails, every other position of the pass still
\* has forceClosePosition called for it.
C23_FailureDoesNotStopPass ==
    [][\A k, j \in PassPositions(handlerLog'.path, handlerLog'.halt) :
          forcedActions'[k] \in {"market_error", "close_error"}
             => forcedActions'[j] # "none"]_vars

\* a pass in which the close of the long position failed and the short
\* position was closed
C23_Witness ==
    /\ handlerLog.path = "watchdog"
    /\ forcedActions["BTCUSDT_long"] \in {"market_error", "close_error"}
    /\ forcedActions["ETHUSDT_short"] = "closed"

\* a halting cycle in which the close of the long position failed and the
\* short position was closed
C23_WitnessHalt ==
    /\ handlerLog.path = "llm"
    /\ handlerLog.halt # "none"
    /\ forcedActions["BTCUSDT_long"] \in {"market_error", "close_error"}
    /\ forcedActions["ETHUSDT_short"] = "closed"

\* C25: once an open has succeeded, the trades table holds exactly one row of
\* the position's symbol and side that has no close_time.
C25_OneOpenRow ==
    (execLog.action = "open" /\ execLog.result = "ok") =>
       Cardinality({r \in trades : /\ r.Symbol = SymbolOf(execLog.key)
                                   /\ r.Side = SideOf(execLog.key)
                                   /\ r.CloseTime = NullTime}) = 1

\* C26: every row of the trades table that has a close_time has exactly one
\* of close_logic and forced_close_logic non-empty.
C26_OneCloseLogic ==
    \A r \in trades :
       r.CloseTime # NullTime => (r.CloseLogic # "") # (r.ForcedCloseLogic # "")

C30_WitnessAI ==
    /\ execLog.action = "close"
    /\ execLog.result = "closed"
    /\ execLog.timed
    /\ execLog.stored

\* C35: while trading is paused (stopUntil is set and not yet passed) no
\* open order is submitted.
C35_NoOpenWhilePaused ==
    [][Paused(stopUntil, now) =>
          ~(execCount' # execCount /\ execLog'.action = "open"
            /\ execLog'.submitted)]_vars

\* C34: the open_long for BTCUSDT with leverage 10, size 2000, stop 59900 and
\* take-profit 62000, at a price of 60000 on an account of 10000 without
\* positions, is rejected by the safety check and submits no order.
C34_ExampleRejected ==
    (/\ execLog.action = "open"
     /\ execLog.key = "BTCUSDT_long"
     /\ execLog.marginRequired = 200
     /\ execLog.prices = <<59900, 62000>>
     /\ execLog.faults = {}) =>
       /\ execLog.result \in {"margin_over_limit", "reserve_too_small",
                              "liquidation_too_close", "stop_loss_unsafe"}
       /\ ~execLog.submitted

\* C33: once Stop has been called no new cycle is started: callCount, which
\* runCycle increments first of all, stays as it is.
C33_NoCycleAfterStop == [][isRunning = 0 => callCount' = callCount]_vars

\* C31: a GetLogic called after DeleteLogic has returned for its key, with no
\* save of the key since, returns nothing.
C31_DeletedLogicIsGone ==
    \A c \in LogicCallers :
       (logicCalls[c].op = "GetLogic" /\ logicCalls[c].pc = "done"
        /\ logicCalls[c].later) => logicCalls[c].ret = {}

\* C32: a save of the position-logic store changes, in the row of its key,
\* the columns it is called to set and no other, and changes no other row.
C32_SaveKeepsOtherFields ==
    [][logicLog'.calls = logicLog.calls + 1 /\ positionLogic' # positionLogic =>
          \A k \in Keys, col \in DOMAIN NoLogic :
             (k # logicLog'.key \/ col \notin logicLog'.named) =>
                /\ GetLogic(positionLogic', k)[col] = GetLogic(positionLogic, k)[col]
                /\ (k # logicLog'.key =>
                       (k \in DOMAIN positionLogic' <=> k \in DOMAIN positionLogic))]_vars

\* a save of the stop alone by SaveStopLossAndTakeProfit on a row that holds
\* a take-profit price, texts and a first-seen time
C32_Witness ==
    /\ logicLog.op = "SaveStopLossAndTakeProfit"
    /\ logicLog.named = {"StopLoss"}
    /\ logicLog.key \in DOMAIN positionLogic
    /\ positionLogic[logicLog.key] =
          [EntryLogic |-> "entry0", ExitLogic |-> "exit0", StopLoss |-> 8000,
           TakeProfit |-> 11000, FirstSeenTime |-> 1000]

C28_UpdateNotFound ==
    (tradeLog.op = "UpdateTrade" /\ tradeLog.executed) =>
       /\ tradeLog.matched = 0 => tradeLog.err = "NotFound"
       /\ tradeLog.err = "" => tradeLog.matched > 0

\* the columns that finalize a row
Finalization(r) ==
    <<r.CloseTime, r.ClosePrice, r.PnL, r.IsForced, r.CloseLogic,
      r.ForcedCloseLogic>>

\* C27: a row that has a close_time keeps its close_time, close_price, pnl,
\* is_forced, close_logic and forced_close_logic through every later
\* operation.
C27_FinalizedRowFrozen ==
    [][\A r \in trades :
          r.CloseTime # NullTime =>
             \E q \in trades' : /\ q.TradeID = r.TradeID
                                /\ Finalization(q) = Finalization(r)]_vars

\* C21: no step of a trader lowers peakEquity; a step that changes it sets
\* it to the larger of the previous peak and the equity the cycle observed.
C21_PeakNeverFalls ==
    [][/\ peakEquity' >= peakEquity
       /\ peakEquity' # peakEquity => peakEquity' = totalEquity]_vars

CloseFailed(out) == out \in {"market_error", "close_error"}

\* C19: when a force-close or an AI close of a key has returned, the
\* close-lock table holds an entry for the key if the close failed and
\* none if it succeeded.
C19_LockEntryIffFailed ==
    \A k \in Keys :
       /\ CloseFailed(forcedActions[k]) => k \in DOMAIN closingPositions
       /\ forcedActions[k] = "closed" => k \notin DOMAIN closingPositions
       /\ CloseFailed(handlerLog.aiActions[k]) => k \in DOMAIN closingPositions
       /\ handlerLog.aiActions[k] = "closed" => k \notin DOMAIN closingPositions

\* the position of the key is gone and its mark is older than the cool-down
GoneAndOld(k) ==
    /\ k \notin DOMAIN positions
    /\ now - forcedClosedPositions[k] > PositionStopLossRetryTimeout

RiskChecked == handlerLog.path = "llm"

\* the halt was carried out: trading is paused for StopTradingTime and every
\* position still open has had its force-close attempt
HaltCarriedOut ==
    /\ stopUntil = now + config.StopTradingTime
    /\ \A k \in DOMAIN positions : forcedActions[k] # "none"

\* peak_equity > 0 and ((peak_equity - total_equity) / peak_equity) * 100 >
\* max_drawdown_pct
DrawdownOverLimit ==
    /\ peakEquity > 0
    /\ (peakEquity - handlerLog.equity) * 100 > config.MaxDrawdown * peakEquity

\* (daily_pnl / daily_start_equity) * 100 < -max_daily_loss_pct, with
\* daily_pnl = total_equity - daily_start_equity
DailyLossOverLimit ==
    (handlerLog.equity - dailyStartEquity) * 100
        < -(config.MaxDailyLoss * dailyStartEquity)

\* C7 as stated: for every allowed max_drawdown_pct, 0 included, the risk
\* check halts on the drawdown rule exactly when the drawdown is over the
\* limit.
C7_DrawdownHaltAnyLimit ==
    RiskChecked => (handlerLog.halt = "drawdown" <=> DrawdownOverLimit)

\* C7: for every max_drawdown_pct > 0 the risk check halts on the drawdown
\* rule (all positions force-closed, pause until now + stop_trading_time)
\* exactly when peak_equity > 0 and the drawdown is over the limit; with
\* max_drawdown_pct = 0 the drawdown rule never halts.
C7_DrawdownHalt ==
    RiskChecked =>
       /\ config.MaxDrawdown > 0
             => /\ handlerLog.halt = "drawdown" <=> DrawdownOverLimit
                /\ handlerLog.halt = "drawdown" => HaltCarriedOut
       /\ config.MaxDrawdown = 0 => handlerLog.halt # "drawdown"

\* a drawdown halt from a peak above the initial balance, the position closed
C7_Witness ==
    /\ RiskChecked
    /\ handlerLog.halt = "drawdown"
    /\ peakEquity = 1050000
    /\ handlerLog.equity = 950000
    /\ forcedActions["BTCUSDT_long"] = "closed"
    /\ stopUntil = now + 86400

\* C8 as stated: the risk check halts on the daily-loss rule if and only if
\* the day's loss is over the limit.
C8_DailyLossHaltIff ==
    RiskChecked => (handlerLog.halt = "daily_loss" <=> DailyLossOverLimit)

\* C8: when max_daily_loss_pct > 0, daily_start_equity > 0, the drawdown rule
\* has not halted in this check and less than 24 hours have passed since the
\* daily reset, daily_pnl = total_equity - daily_start_equity and the
\* daily-loss halt is triggered if and only if the day's loss is over the
\* limit; with max_daily_loss_pct = 0 the daily-loss rule never halts.
C8_DailyLossHalt ==
    RiskChecked =>
       /\ (/\ config.MaxDailyLoss > 0
           /\ dailyStartEquity > 0
           /\ handlerLog.halt # "drawdown"
           /\ now - lastResetTime < 86400)
             => /\ dailyPnL = handlerLog.equity - dailyStartEquity
                /\ handlerLog.halt = "daily_loss" <=> DailyLossOverLimit
                /\ handlerLog.halt = "daily_loss" => HaltCarriedOut
       /\ config.MaxDailyLoss = 0 => handlerLog.halt # "daily_loss"

\* a daily-loss halt with the drawdown rule switched on and not breached:
\* the day started at the peak's 5 percent drawdown
C8_Witness ==
    /\ RiskChecked
    /\ handlerLog.halt = "daily_loss"
    /\ config.MaxDrawdown = 5
    /\ dailyPnL < 0
    /\ stopUntil = now + 86400

\* C9 as stated: from a day's start of 10000 with a 5 percent limit, equity
\* 9499.99 does not halt on the daily-loss rule and equity 9500 does.
C9_BoundaryAsStated ==
    (RiskChecked /\ dailyStartEquity = 1000000 /\ config.MaxDailyLoss = 5)
       => /\ handlerLog.equity = 949999 => handlerLog.halt # "daily_loss"
          /\ handlerLog.equity = 950000 => handlerLog.halt = "daily_loss"

\* C9: from a day's start of 10000 with a 5 percent limit, when the drawdown
\* rule has not halted in this check and less than 24 hours have passed
\* since the daily reset, equity 9499.99 triggers the daily-loss halt and
\* equity 9500 triggers no halt.
C9_Boundary ==
    (/\ RiskChecked
     /\ dailyStartEquity = 1000000
     /\ config.MaxDailyLoss = 5
     /\ handlerLog.halt # "drawdown"
     /\ now - lastResetTime < 86400)
       => /\ handlerLog.equity = 949999 => handlerLog.halt = "daily_loss"
          /\ handlerLog.equity = 950000 => handlerLog.halt = "none"

\* the cycle observed 9499.99 against a day's start of 10000 and halted
C9_Witness ==
    /\ RiskChecked
    /\ dailyStartEquity = 1000000
    /\ config.MaxDailyLoss = 5
    /\ handlerLog.equity = 949999
    /\ handlerLog.halt = "daily_loss"

\* C24: a cycle that ends with an error of the context build or of the LLM
\* call or parse has persisted a DecisionRecord for its cycle number that
\* carries the error.
C24_FailedCyclePersists ==
    handlerLog.path \in {"context_error", "llm_error"} =>
       \E r \in decisionRecords :
          /\ r.CycleNumber = handlerLog.CycleNumber
          /\ r.ErrorMessage # ""

\* C10: a cycle that starts while trading is paused persists a
\* DecisionRecord for its cycle number with success = false and an error
\* message.
C10_PausedCyclePersists ==
    handlerLog.path = "paused" =>
       \E r \in decisionRecords :
          /\ r.CycleNumber = handlerLog.CycleNumber
          /\ r.Success = FALSE
          /\ r.ErrorMessage # ""

====
